---- MODULE Spec2Model ----
(***************************************************************************)
(* The aw-tauri module supervisor (src-tauri/src/manager.rs) and the part  *)
(* of the startup sequence (src-tauri/src/lib.rs) that drives it.          *)
(*                                                                         *)
(* Threads: the startup thread (run/setup, start_manager), the consumer    *)
(* thread (handle), one worker thread per start_module_thread call, one    *)
(* restart arbiter per failing Stopped message, and the GUI thread that    *)
(* delivers tray clicks.  The lifecycle state is one value behind one      *)
(* mutex; every action below that touches it is one critical section of    *)
(* that mutex, from lock() to the guard's drop.                            *)
(***************************************************************************)
EXTENDS Integers, Sequences, FiniteSets, TLC

\* ------------------------------------------------------------------ bounds
\* Worker threads (spawn attempts) created during one run.
MaxWorkers == 3
\* The same, for the runs without tray clicks (the crash loop).
MaxCrashWorkers == 5
\* Tray clicks on module items during one run.
MaxClicks == 1
\* The same, for the runs in which an item is clicked again (stop, then start).
MaxSeqClicks == 2

\* ------------------------------------------------------- program constants
DefaultPort == 5600
RestartLimit == 3

\* --------------------------------------------------------------- universe
Names == {"aw-notify", "aw-sync"}
\* BTreeMap iterates its keys in ascending order.
NameOrder == <<"aw-notify", "aw-sync">>

\* Option<Vec<String>>
None == [some |-> FALSE, v |-> <<>>]
Some(v) == [some |-> TRUE, v |-> v]

\* A config args string is a sequence of tokens; " " stands for whitespace.
EntrySync == [name |-> "aw-sync", args |-> <<"daemon">>]
EntryNotify == [name |-> "aw-notify", args |-> <<>>]
\* The installations the runs start from: the port and autostart.modules of
\* config.toml, and the module names discover_modules finds.
Installations ==
    { [port |-> 5600, autostart |-> <<EntrySync, EntryNotify>>,
       discovered |-> {"aw-notify", "aw-sync"}],
      [port |-> 5601, autostart |-> <<EntrySync, EntrySync>>,
       discovered |-> {"aw-sync"}],
      [port |-> 5601, autostart |-> <<EntryNotify>>,
       discovered |-> {"aw-notify", "aw-sync"}],
      [port |-> 5600, autostart |-> <<EntryNotify, EntrySync>>,
       discovered |-> {"aw-sync"}] }

VARIABLES
    config,                    \* UserConfig: port and autostart.modules
    modules_running,           \* BTreeMap<String, bool>
    modules_discovered,        \* keys of BTreeMap<String, PathBuf>
    modules_pid,               \* HashMap<String, u32>
    modules_restart_count,     \* HashMap<String, u32>
    modules_pending_shutdown,  \* HashMap<String, bool>
    modules_args,              \* HashMap<String, Option<Vec<String>>>
    modules_menu_set,          \* bool
    chan,                      \* the mpsc channel of ModuleMessage
    workers,                   \* live worker threads, keyed by thread id (= child pid)
    nextId,                    \* id of the next worker thread
    arbiters,                  \* sleeping restart-arbiter threads
    signalled,                 \* pids of live children that were sent a terminate signal
    startup,                   \* position of the startup thread
    auto_i,                    \* index of the next autostart entry
    tray_ready,                \* TRAY_CONDVAR flag
    tray_menu,                 \* the menu installed on the tray icon
    exited,                    \* app.exit(0) was called
    spawned,                   \* history: children spawned per module
    execFailed,                \* history: modules with a failed exec
    crashed,                   \* history: modules with a non-zero exit
    exitedOk,                  \* history: modules with a zero exit
    clicks,                    \* history: tray clicks per module, "stop" or "start"
    dialogs,                   \* history: dialogs shown, <<name, kind>>
    lastArgv,                  \* history: argv of the latest child per module
    last,                      \* history: the step taken last
    mutex,                     \* holder of the lifecycle mutex (lock-level runs)
    cpc,                       \* position of the consumer thread in handle (lock-level runs)
    cmsg,                      \* the message the consumer thread has received
    stdout,                    \* aw-notify's stdout lines not yet read (reader runs)
    rpc,                       \* position of the aw-notify reader loop
    in_notification,           \* the reader's flag
    notification_content,      \* the reader's buffer
    notified,                  \* notifications handed to the OS, in order
    block,                     \* history: lines read since the opening delimiter
    cfg_file,                  \* the config file on disk (config-store runs)
    CONFIG,                    \* static CONFIG: OnceLock<UserConfig>
    FIRST_RUN,                 \* static FIRST_RUN: OnceLock<bool>
    cfg_ret,                   \* what the latest get_config call returned
    cfg_calls,                 \* get_config calls made
    cfg_writes,                \* history: writes of the config file by the program
    cfg_notes,                 \* history: "Malformed config file" dialogs requested
    first_file,                \* history: the file as the first get_config call found it
    cfg_panic,                 \* get_config panicked
    dirs_paths,                \* what dirs::get_discovery_paths returns in this environment
    world,                     \* discover_modules' inputs: build, filesystem, discovery_paths, PATH
    dirs_to_search,            \* Vec<PathBuf> used as a stack
    visited_dirs,              \* HashSet<PathBuf>
    found_modules,             \* BTreeMap<String, PathBuf>
    reads,                     \* history: read_dir calls answered, per directory
    dpc,                       \* discover_modules' position
    lock_file,                 \* single_instance.lock exists in the runtime directory
    wevents,                   \* the watcher's channel: events not yet received
    wpc,                       \* the lock-file watcher thread's position
    launches,                  \* history: second launches so far
    shown,                     \* history: times the watcher showed the main window
    log_file,                  \* aw-tauri.log: whether it exists, its size and mtime
    rotated,                   \* the rotated logs of the log directory: name -> mtime
    lpc,                       \* rotate_log_if_needed's position
    appdirs,                   \* what the appdirs crate answers in this environment
    fs_dirs,                   \* the directories that exist
    fs_files,                  \* the paths that exist and are not directories
    path_calls,                \* history: calls of get_config_path / get_log_path so far
    path_last,                 \* history: the last call, its outcome and what it created
    path_first,                \* history: per getter, its first normal return
    sync                       \* the four locks, the two condvar flags and the threads using them

discover == << world, dirs_to_search, visited_dirs, found_modules, reads, dpc >>
\* The variables of the parts modelled after the config store
watch == << lock_file, wevents, wpc, launches, shown >>
logs == << log_file, rotated, lpc >>
pathv == << appdirs, fs_dirs, fs_files, path_calls, path_last, path_first >>
ext == << discover, watch, logs, pathv, sync >>

vars == << config, modules_running, modules_discovered, modules_pid,
           modules_restart_count, modules_pending_shutdown, modules_args,
           modules_menu_set, chan, workers, nextId, arbiters, signalled,
           startup, auto_i, tray_ready, tray_menu, exited, spawned, execFailed,
           crashed, exitedOk, clicks, dialogs, lastArgv, last, mutex, cpc, cmsg,
           stdout, rpc, in_notification, notification_content, notified, block,
           cfg_file, CONFIG, FIRST_RUN, cfg_ret, cfg_calls, cfg_writes, cfg_notes,
           first_file, cfg_panic, dirs_paths, ext >>

lifecycle == << modules_running, modules_pid, modules_restart_count,
                modules_pending_shutdown, modules_args, modules_menu_set >>
history == << spawned, execFailed, crashed, exitedOk, clicks, dialogs, lastArgv >>
\* The variables of the finer-grained runs; the supervisor's atomic steps leave
\* them alone.
lockv == << mutex, cpc, cmsg >>
reader == << stdout, rpc, in_notification, notification_content, notified, block >>
store == << cfg_file, CONFIG, FIRST_RUN, cfg_ret, cfg_calls, cfg_writes, cfg_notes,
           first_file, cfg_panic, dirs_paths >>
aux == << lockv, reader, store, ext >>
\* What the lock-level steps leave alone besides the supervisor's variables
notlock == << reader, store, ext >>
\* The supervisor's own variables
sup == << config, modules_running, modules_discovered, modules_pid,
          modules_restart_count, modules_pending_shutdown, modules_args,
          modules_menu_set, chan, workers, nextId, arbiters, signalled,
          startup, auto_i, tray_ready, tray_menu, exited, spawned, execFailed,
          crashed, exitedOk, clicks, dialogs, lastArgv, last >>

\* ------------------------------------------------------------------- maps
EmptyMap == [x \in {} |-> TRUE]
Put(f, k, v) == [x \in (DOMAIN f) \cup {k} |-> IF x = k THEN v ELSE f[x]]
Del(f, k) == [x \in (DOMAIN f) \ {k} |-> f[x]]
Get(f, k, d) == IF k \in DOMAIN f THEN f[k] ELSE d

StartedMsg(n, p, a) == [type |-> "Started", name |-> n, pid |-> p, args |-> a, ok |-> TRUE]
StoppedMsg(n, ok) == [type |-> "Stopped", name |-> n, pid |-> 0, args |-> None, ok |-> ok]
InitMsg == [type |-> "Init", name |-> "", pid |-> 0, args |-> None, ok |-> TRUE]

\* ------------------------------------------------------------ pure helpers
is_module_running(n) == Get(modules_running, n, FALSE)

\* shell_words::split: words are separated by whitespace
shell_split(s) == SelectSeq(s, LAMBDA t : t # " ")

\* start_manager: the Option passed to start_module for one autostart entry
AutostartArgs(entry) ==
    IF entry.args = <<>> THEN None ELSE Some(shell_split(entry.args))

\* "--port <port>" whatever the port
PortArgs_always == <<"--port", ToString(config.port)>>

\* "--port <port>" unless the configured port is the default
PortArgs == IF config.port # DefaultPort THEN <<"--port", ToString(config.port)>> ELSE <<>>

\* start_notify_module_thread: the argument vector built for aw-notify
NotifyArgs(custom) ==
    <<"--output-only">> \o PortArgs \o (IF custom.some THEN custom.v ELSE <<>>)

\* The argument vector the child process receives
ChildArgv(kind, custom) ==
    IF kind = "notify" THEN NotifyArgs(custom)
    ELSE IF custom.some THEN custom.v ELSE PortArgs

\* The args field of the Started message
StartedArgs(kind, custom) ==
    IF kind = "notify" THEN Some(NotifyArgs(custom)) ELSE custom

\* start_module_thread dispatches on the module name
ThreadKind(n) == IF n = "aw-notify" THEN "notify" ELSE "generic"

\* The Modules submenu built by update_tray_menu
CheckItems(running) ==
    LET ks == SelectSeq(NameOrder, LAMBDA n : n \in DOMAIN running)
    IN  [i \in 1..Len(ks) |-> [id |-> ks[i], checkable |-> TRUE, checked |-> running[ks[i]]]]
\* The second loop of update_tray_menu without its contains_key test
PlainItems_unfiltered(running, discovered) ==
    LET ks == SelectSeq(NameOrder, LAMBDA n : n \in discovered)
    IN  [i \in 1..Len(ks) |-> [id |-> ks[i], checkable |-> FALSE, checked |-> FALSE]]

PlainItems(running, discovered) ==
    LET ks == SelectSeq(NameOrder, LAMBDA n : n \in discovered /\ n \notin DOMAIN running)
    IN  [i \in 1..Len(ks) |-> [id |-> ks[i], checkable |-> FALSE, checked |-> FALSE]]
MenuIds(menu) == { menu.modules[i].id : i \in 1..Len(menu.modules) }

\* --------------------------------------------------- ManagerState methods
\* Each is a fragment of the critical section that calls it.
started_module(n, pid, args) ==
    /\ modules_running' = Put(modules_running, n, TRUE)
    /\ modules_pid' = Put(modules_pid, n, pid)
    /\ modules_args' = Put(modules_args, n, args)
    /\ modules_pending_shutdown' = Del(modules_pending_shutdown, n)

\* stopped_module without its modules_pid.remove
stopped_module_keeps_pid(n) ==
    /\ modules_running' = Put(modules_running, n, FALSE)
    /\ UNCHANGED <<modules_pid, modules_args, modules_pending_shutdown>>

\* stopped_module that forgets every pid, not only the stopped module's
stopped_module_clears_pids(n) ==
    /\ modules_running' = Put(modules_running, n, FALSE)
    /\ modules_pid' = EmptyMap
    /\ UNCHANGED <<modules_args, modules_pending_shutdown>>

stopped_module(n) ==
    /\ modules_running' = Put(modules_running, n, FALSE)
    /\ modules_pid' = Del(modules_pid, n)
    /\ UNCHANGED <<modules_args, modules_pending_shutdown>>

\* update_tray_menu without its second loop, over modules_discovered
update_tray_menu_running_only ==
    tray_menu' = [full |-> TRUE, modules |-> CheckItems(modules_running')]

\* Reads the state the caller has just written (the primed maps).
update_tray_menu ==
    tray_menu' = [full |-> TRUE,
                  modules |-> CheckItems(modules_running')
                              \o PlainItems(modules_running', modules_discovered)]

WouldSpawn(n) == ~is_module_running(n) /\ n \in modules_discovered

\* start_module without its modules_discovered lookup
StartWorkers_any_name(ws, id, n, args) ==
    IF ~is_module_running(n)
    THEN Put(ws, id, [name |-> n, custom |-> args, kind |-> ThreadKind(n), pc |-> "new"])
    ELSE ws

\* start_module without its is_module_running check
StartWorkers_unchecked(ws, id, n, args) ==
    IF n \in modules_discovered
    THEN Put(ws, id, [name |-> n, custom |-> args, kind |-> ThreadKind(n), pc |-> "new"])
    ELSE ws

\* start_module: the worker threads after the call
StartWorkers(ws, id, n, args) ==
    IF ~is_module_running(n)
    THEN IF n \in modules_discovered
         THEN Put(ws, id, [name |-> n, custom |-> args, kind |-> ThreadKind(n), pc |-> "new"])
         ELSE ws
    ELSE ws

start_module(n, args) ==
    /\ workers' = StartWorkers(workers, nextId, n, args)
    /\ nextId' = IF workers' = workers THEN nextId ELSE nextId + 1

\* kill(pid, SIGTERM) / TerminateProcess: an error when the process is gone
send_sigterm(sig, pid) ==
    IF pid \in DOMAIN workers /\ workers[pid].pc = "alive" THEN sig \cup {pid} ELSE sig

StopPending(pend, n) ==
    IF n \in DOMAIN modules_pid THEN Put(pend, n, TRUE) ELSE pend
StopSignals(sig, n) ==
    IF n \in DOMAIN modules_pid THEN send_sigterm(sig, modules_pid[n]) ELSE sig

stop_module(n) ==
    /\ modules_pending_shutdown' = StopPending(modules_pending_shutdown, n)
    /\ signalled' = StopSignals(signalled, n)

RECURSIVE StopAllPending(_, _)
StopAllPending(pend, names) ==
    IF names = {} THEN pend
    ELSE LET n == CHOOSE x \in names : TRUE
         IN  StopAllPending(StopPending(pend, n), names \ {n})
RECURSIVE StopAllSignals(_, _)
StopAllSignals(sig, names) ==
    IF names = {} THEN sig
    ELSE LET n == CHOOSE x \in names : TRUE
         IN  StopAllSignals(StopSignals(sig, n), names \ {n})

\* stop_modules that gives up at a failed terminate: the modules whose signal
\* fails are marked, the others are neither marked nor signalled
stop_modules_until_error ==
    LET module_names == DOMAIN modules_pid
        failing == { n \in module_names : send_sigterm(signalled, modules_pid[n]) = signalled
                                             /\ modules_pid[n] \notin signalled }
    IN  IF failing = {}
        THEN /\ modules_pending_shutdown' = StopAllPending(modules_pending_shutdown, module_names)
             /\ signalled' = StopAllSignals(signalled, module_names)
        ELSE /\ modules_pending_shutdown' = StopAllPending(modules_pending_shutdown, failing)
             /\ signalled' = signalled

stop_modules ==
    LET module_names == DOMAIN modules_pid
    IN  /\ modules_pending_shutdown' = StopAllPending(modules_pending_shutdown, module_names)
        /\ signalled' = StopAllSignals(signalled, module_names)

handle_system_click(n) ==
    IF is_module_running(n)
    THEN /\ stop_module(n)
         /\ UNCHANGED <<workers, nextId>>
    ELSE /\ start_module(n, None)
         /\ UNCHANGED <<modules_pending_shutdown, signalled>>

Step(op, n) == last' = [op |-> op, name |-> n]

\* The arbiter's policy with "<=" for "<"
may_restart_off_by_one(restart_count) == restart_count <= RestartLimit

\* if *restart_count < 3
may_restart(restart_count) == restart_count < RestartLimit

\* The arbiter without its pending_shutdown check
pending_shutdown_ignored(n) == FALSE

\* modules_pending_shutdown.get(name).unwrap_or(&false)
pending_shutdown_of(n) == Get(modules_pending_shutdown, n, FALSE)


\* A sleeping arbiter is known by its module and by whether pending_shutdown was
\* set when its Stopped message was consumed (the latter is history).
ArbiterKinds == [name : Names, pend : BOOLEAN]

\* ------------------------------------------------------------------ Init
\* The state when the setup closure has read the config and is about to check
\* the port; the lifecycle maps are those ManagerState::new builds.
InitSup ==
    /\ \E inst \in Installations :
        /\ config = [port |-> inst.port, autostart |-> inst.autostart]
        /\ modules_discovered = inst.discovered
    /\ modules_running = EmptyMap
    /\ modules_pid = EmptyMap
    /\ modules_restart_count = EmptyMap
    /\ modules_pending_shutdown = EmptyMap
    /\ modules_args = EmptyMap
    /\ modules_menu_set = FALSE
    /\ chan = <<>>
    /\ workers = EmptyMap
    /\ nextId = 1
    /\ arbiters = [k \in ArbiterKinds |-> 0]
    /\ signalled = {}
    /\ startup = "setup"
    /\ auto_i = 1
    /\ tray_ready = FALSE
    /\ tray_menu = [full |-> FALSE, modules |-> <<>>]
    /\ exited = FALSE
    /\ spawned = [n \in Names |-> 0]
    /\ execFailed = {}
    /\ crashed = {}
    /\ exitedOk = {}
    /\ clicks = [n \in Names |-> <<>>]
    /\ dialogs = {}
    /\ lastArgv = EmptyMap
    /\ last = [op |-> "init", name |-> ""]

\* No consumer step in progress
InitLock ==
    /\ mutex = "free"
    /\ cpc = "recv"
    /\ cmsg = InitMsg

\* No aw-notify reader yet
InitReaderIdle ==
    /\ stdout = <<>>
    /\ rpc = "idle"
    /\ in_notification = FALSE
    /\ notification_content = <<>>
    /\ notified = <<>>
    /\ block = <<>>

\* The config store before the runs that exercise it: the supervisor's config
\* variable already holds what get_config returned
InitStoreIdle ==
    /\ cfg_file = [absent |-> TRUE]
    /\ CONFIG = None
    /\ FIRST_RUN = None
    /\ cfg_ret = None
    /\ cfg_calls = 0
    /\ cfg_writes = 0
    /\ cfg_notes = 0
    /\ first_file = None
    /\ cfg_panic = FALSE
    /\ dirs_paths = << <<"/", "h", "/", "bin">>, <<"/", "h", "/", "aw-modules">> >>

\* discover_modules before the runs that exercise it: the supervisor's
\* modules_discovered already holds the names it found
InitDiscoverIdle ==
    /\ world = [build |-> "unix", fs |-> <<>>, discovery_paths |-> <<>>, PATH |-> <<>>]
    /\ dirs_to_search = <<>>
    /\ visited_dirs = {}
    /\ found_modules = EmptyMap
    /\ reads = EmptyMap
    /\ dpc = "done"

\* listen_for_lockfile has started its thread; no second launch yet
InitWatch ==
    /\ lock_file = FALSE
    /\ wevents = <<>>
    /\ wpc = "waiting"
    /\ launches = 0
    /\ shown = 0

\* Logging is set up before the runs of the other parts: rotation is over
InitLogsIdle ==
    /\ log_file = [exists |-> FALSE, size |-> 0, mtime |-> 0]
    /\ rotated = EmptyMap
    /\ lpc = "done"

\* No path getter has been called; the directories already exist
InitPathsIdle ==
    /\ appdirs = [linux |-> TRUE,
                  user_config_dir |-> Some(<<"h", ".config", "activitywatch">>),
                  user_cache_dir |-> Some(<<"h", ".cache", "activitywatch">>),
                  user_log_dir |-> None]
    /\ fs_dirs = {<<>>, <<"h">>, <<"h", ".config">>, <<"h", ".config", "activitywatch">>,
                  <<"h", ".config", "activitywatch", "aw-tauri">>,
                  <<"h", ".cache">>, <<"h", ".cache", "activitywatch">>,
                  <<"h", ".cache", "activitywatch", "aw-tauri">>,
                  <<"h", ".cache", "activitywatch", "aw-tauri", "log">>}
    /\ fs_files = {}
    /\ path_calls = 0
    /\ path_last = [fn |-> "", res |-> "", path |-> <<>>, created |-> {}]
    /\ path_first = [fn \in {"get_config_path", "get_log_path"} |-> None]

\* run has been entered: every lock is free, nothing is published, and only
\* the startup thread exists
InitSync ==
    sync = [owner |-> [l \in {"M", "H", "A", "T"} |-> "free"],
            flag |-> [l \in {"H", "T"} |-> FALSE],
            threads |-> [t \in {"startup"} |->
                            [script |-> <<>>, pc |-> 1, held |-> <<>>,
                             waiting |-> FALSE, runs |-> 0]]]

InitExtIdle == InitDiscoverIdle /\ InitWatch /\ InitLogsIdle /\ InitPathsIdle /\ InitSync

Init == InitSup /\ InitLock /\ InitReaderIdle /\ InitStoreIdle /\ InitExtIdle

\* --------------------------------------------------------------- actions
\* What is_port_available(user_config.port) returns: Ok(true), Ok(false), Err
PortResults == {"available", "in_use", "error"}

\* The setup closure that goes on to start_manager whatever the port check says
setup_never_aborts(res) == FALSE

\* The setup closure panics unless the port check returned Ok(true)
setup_aborts(res) == res # "available"

\* run (setup): the port check that precedes start_manager
PortCheck ==
    /\ startup = "setup"
    /\ \E res \in PortResults :
        /\ dialogs' = IF res = "in_use" THEN dialogs \cup {<<"port", "in_use">>} ELSE dialogs
        /\ startup' = IF setup_aborts(res) THEN "aborted" ELSE "autostart"
        /\ Step("port_" \o res, "")
    /\ UNCHANGED <<aux, config, modules_discovered, lifecycle, chan, workers, nextId, arbiters,
                   signalled, auto_i, tray_ready, tray_menu, exited, spawned, execFailed,
                   crashed, exitedOk, clicks, lastArgv>>

\* start_manager: one iteration of the loop over config.autostart.modules
Autostart(maxw) ==
    /\ startup = "autostart"
    /\ auto_i <= Len(config.autostart)
    /\ LET entry == config.autostart[auto_i]
       IN  /\ WouldSpawn(entry.name) => nextId <= maxw
           /\ start_module(entry.name, AutostartArgs(entry))
           /\ Step("autostart", entry.name)
    /\ auto_i' = auto_i + 1
    /\ UNCHANGED <<aux, config, modules_discovered, lifecycle, chan, arbiters, signalled,
                   startup, tray_ready, tray_menu, exited, history>>

\* start_manager: send Init when the menu flag is unset, then spawn the consumer
SendInit ==
    /\ startup = "autostart"
    /\ auto_i > Len(config.autostart)
    /\ chan' = IF ~modules_menu_set THEN Append(chan, InitMsg) ELSE chan
    /\ startup' = "tray"
    /\ Step("send_init", "")
    /\ UNCHANGED <<aux, config, modules_discovered, lifecycle, workers, nextId, arbiters,
                   signalled, auto_i, tray_ready, tray_menu, exited, history>>

\* run (setup): build the tray icon, init_tray_id, then register on_menu_event
InitTray ==
    /\ startup = "tray"
    /\ tray_ready' = TRUE
    /\ startup' = "done"
    /\ Step("init_tray", "")
    /\ UNCHANGED <<aux, config, modules_discovered, lifecycle, chan, workers, nextId, arbiters,
                   signalled, auto_i, tray_menu, exited, history>>

\* A worker thread runs command.spawn(): on success it sends Started
WorkerSpawn ==
    /\ ~exited
    /\ \E w \in DOMAIN workers :
        /\ workers[w].pc = "new"
        /\ LET n == workers[w].name
               kind == workers[w].kind
               custom == workers[w].custom
           IN  /\ workers' = [workers EXCEPT ![w].pc = "alive"]
               /\ chan' = Append(chan, StartedMsg(n, w, StartedArgs(kind, custom)))
               /\ spawned' = [spawned EXCEPT ![n] = @ + 1]
               /\ lastArgv' = Put(lastArgv, n, ChildArgv(kind, custom))
               /\ Step("spawn", n)
    /\ UNCHANGED <<aux, config, modules_discovered, lifecycle, nextId, arbiters, signalled,
                   startup, auto_i, tray_ready, tray_menu, exited, execFailed, crashed,
                   exitedOk, clicks, dialogs>>

\* A worker that reports a failed spawn as a failing exit
exec_fail_sends_stopped(n) == Append(chan, StoppedMsg(n, FALSE))

\* The channel after a failed spawn: the thread returns without sending
exec_fail_sends(n) == chan

\* command.spawn() returns Err: the error is logged and the thread ends
WorkerExecFail ==
    /\ ~exited
    /\ \E w \in DOMAIN workers :
        /\ workers[w].pc = "new"
        /\ workers' = Del(workers, w)
        /\ chan' = exec_fail_sends(workers[w].name)
        /\ execFailed' = execFailed \cup {workers[w].name}
        /\ Step("exec_fail", workers[w].name)
    /\ UNCHANGED <<aux, config, modules_discovered, lifecycle, nextId, arbiters, signalled,
                   startup, auto_i, tray_ready, tray_menu, exited, spawned, crashed,
                   exitedOk, clicks, dialogs, lastArgv>>

\* start_notify_module_thread: spawn() returns an Err whose text contains
\* "No such option: --output-only"; the thread calls start_module_thread with the
\* same name, path and custom args and ends; the thread that call creates takes
\* its place in workers
WorkerExecFallback ==
    /\ ~exited
    /\ \E w \in DOMAIN workers :
        /\ workers[w].pc = "new"
        /\ workers[w].kind = "notify"
        /\ workers' = [workers EXCEPT ![w].kind = ThreadKind(workers[w].name)]
        /\ Step("exec_fallback", workers[w].name)
    /\ UNCHANGED <<aux, config, modules_discovered, lifecycle, chan, nextId, arbiters, signalled,
                   startup, auto_i, tray_ready, tray_menu, exited, history>>

\* The child exits, wait_with_output returns, the worker sends Stopped and ends
WorkerExit ==
    /\ ~exited
    /\ \E w \in DOMAIN workers, ok \in BOOLEAN :
        /\ workers[w].pc = "alive"
        /\ LET n == workers[w].name
           IN  /\ chan' = Append(chan, StoppedMsg(n, ok))
               /\ workers' = Del(workers, w)
               /\ signalled' = signalled \ {w}
               /\ crashed' = IF ok THEN crashed ELSE crashed \cup {n}
               /\ exitedOk' = IF ok THEN exitedOk \cup {n} ELSE exitedOk
               /\ Step(IF ok THEN "exit_ok" ELSE "exit_fail", n)
    /\ UNCHANGED <<aux, config, modules_discovered, lifecycle, nextId, arbiters,
                   startup, auto_i, tray_ready, tray_menu, exited, spawned, execFailed,
                   clicks, dialogs, lastArgv>>

\* The consumer thread exists once start_manager has spawned it; a projection
\* blocks in get_tray_id until init_tray_id has run.
ConsumerCanHandle(type) ==
    /\ ~exited
    /\ startup \in {"tray", "done"}
    /\ tray_ready
    /\ chan # <<>>
    /\ Head(chan).type = type

\* handle: ModuleMessage::Started
HandleStarted ==
    /\ ConsumerCanHandle("Started")
    /\ LET msg == Head(chan)
       IN  /\ started_module(msg.name, msg.pid, msg.args)
           /\ update_tray_menu
           /\ Step("started", msg.name)
    /\ chan' = Tail(chan)
    /\ UNCHANGED <<aux, config, modules_discovered, modules_restart_count, modules_menu_set,
                   workers, nextId, arbiters, signalled, startup, auto_i, tray_ready,
                   exited, history>>

\* handle: ModuleMessage::Stopped; a failing status spawns the restart arbiter
HandleStopped ==
    /\ ConsumerCanHandle("Stopped")
    /\ LET msg == Head(chan)
       IN  /\ stopped_module(msg.name)
           /\ update_tray_menu
           /\ arbiters' = IF msg.ok THEN arbiters
                          ELSE LET k == [name |-> msg.name,
                                         pend |-> Get(modules_pending_shutdown, msg.name, FALSE)]
                               IN  [arbiters EXCEPT ![k] = @ + 1]
           /\ Step(IF msg.ok THEN "stopped_ok" ELSE "stopped_fail", msg.name)
    /\ chan' = Tail(chan)
    /\ UNCHANGED <<aux, config, modules_discovered, modules_restart_count, modules_menu_set,
                   workers, nextId, signalled, startup, auto_i, tray_ready,
                   exited, history>>

\* handle: ModuleMessage::Init
HandleInit ==
    /\ ConsumerCanHandle("Init")
    /\ UNCHANGED lifecycle
    /\ update_tray_menu
    /\ chan' = Tail(chan)
    /\ Step("init_menu", "")
    /\ UNCHANGED <<aux, config, modules_discovered, workers, nextId, arbiters, signalled,
                   startup, auto_i, tray_ready, exited, history>>

\* The closure of the restart arbiter, after its sleep, under the mutex
restart_arbiter(n) ==
    LET restart_count == Get(modules_restart_count, n, 0)
        pending_shutdown == pending_shutdown_of(n)
        stored_args == Get(modules_args, n, None)
    IN  IF pending_shutdown
        THEN /\ UNCHANGED <<modules_restart_count, workers, nextId, dialogs>>
             /\ Step("arbiter_abort", n)
        ELSE IF may_restart(restart_count)
        THEN /\ modules_restart_count' = Put(modules_restart_count, n, restart_count + 1)
             /\ start_module(n, stored_args)
             /\ dialogs' = dialogs \cup {<<n, "restarting">>}
             /\ Step("arbiter_restart", n)
        ELSE /\ UNCHANGED <<modules_restart_count, workers, nextId>>
             /\ dialogs' = dialogs \cup {<<n, "limit">>}
             /\ Step("arbiter_limit", n)

ArbiterWouldSpawn(n) ==
    /\ ~pending_shutdown_of(n)
    /\ may_restart(Get(modules_restart_count, n, 0))
    /\ WouldSpawn(n)

Arbiter(maxw) ==
    /\ ~exited
    /\ \E a \in ArbiterKinds :
        /\ arbiters[a] > 0
        /\ ArbiterWouldSpawn(a.name) => nextId <= maxw
        /\ restart_arbiter(a.name)
        /\ arbiters' = [arbiters EXCEPT ![a] = @ - 1]
    /\ UNCHANGED <<aux, config, modules_discovered, modules_running, modules_pid,
                   modules_pending_shutdown, modules_args, modules_menu_set, chan,
                   signalled, startup, auto_i, tray_ready, tray_menu, exited, spawned,
                   execFailed, crashed, exitedOk, clicks, lastArgv>>

TotalClicks == Len(clicks["aw-notify"]) + Len(clicks["aw-sync"])

\* on_menu_event: a click on an item of the Modules submenu
Click(maxw, maxc) ==
    /\ ~exited
    /\ startup = "done"
    /\ TotalClicks < maxc
    /\ \E n \in MenuIds(tray_menu) :
        /\ WouldSpawn(n) => nextId <= maxw
        /\ handle_system_click(n)
        /\ clicks' = [clicks EXCEPT
                         ![n] = Append(@, IF is_module_running(n) THEN "stop" ELSE "start")]
        /\ Step(IF is_module_running(n) THEN "click_stop" ELSE "click_start", n)
    /\ UNCHANGED <<aux, config, modules_discovered, modules_running, modules_pid,
                   modules_restart_count, modules_args, modules_menu_set, chan, arbiters,
                   startup, auto_i, tray_ready, tray_menu, exited, spawned, execFailed,
                   crashed, exitedOk, dialogs, lastArgv>>

\* on_menu_event: quit
Quit ==
    /\ ~exited
    /\ startup = "done"
    /\ stop_modules
    /\ exited' = TRUE
    /\ Step("quit", "")
    /\ UNCHANGED <<aux, config, modules_discovered, modules_running, modules_pid,
                   modules_restart_count, modules_args, modules_menu_set, chan, workers,
                   nextId, arbiters, startup, auto_i, tray_ready, tray_menu, history>>

Next ==
    \/ PortCheck
    \/ Autostart(MaxWorkers)
    \/ SendInit
    \/ InitTray
    \/ WorkerSpawn
    \/ WorkerExecFail
    \/ WorkerExecFallback
    \/ WorkerExit
    \/ HandleStarted
    \/ HandleStopped
    \/ HandleInit
    \/ Arbiter(MaxWorkers)
    \/ Click(MaxWorkers, MaxClicks)
    \/ Quit

Spec == Init /\ [][Next]_vars

\* The runs in which a tray item can be clicked a second time.
NextClicks ==
    \/ PortCheck
    \/ Autostart(MaxWorkers)
    \/ SendInit
    \/ InitTray
    \/ WorkerSpawn
    \/ WorkerExecFail
    \/ WorkerExecFallback
    \/ WorkerExit
    \/ HandleStarted
    \/ HandleStopped
    \/ HandleInit
    \/ Arbiter(MaxWorkers)
    \/ Click(MaxWorkers, MaxSeqClicks)
    \/ Quit

SpecClicks == Init /\ [][NextClicks]_vars

\* The runs in which every command.spawn() succeeds, the user does not quit
\* and touches the tray only while a restart arbiter is asleep, for the
\* properties about what eventually happens.
MaxLiveWorkers == 3
MaxLiveClicks == 1

\* A tray click during the delay of some arbiter
LiveClick ==
    /\ \E a \in ArbiterKinds : arbiters[a] > 0
    /\ Click(MaxLiveWorkers, MaxLiveClicks)

NextLive ==
    \/ PortCheck
    \/ Autostart(MaxLiveWorkers)
    \/ SendInit
    \/ InitTray
    \/ WorkerSpawn
    \/ WorkerExit
    \/ HandleStarted
    \/ HandleStopped
    \/ HandleInit
    \/ Arbiter(MaxLiveWorkers)
    \/ LiveClick

SpecLive == Init /\ [][NextLive]_vars

\* The startup thread: run's setup closure and start_manager
StartupThread == PortCheck \/ Autostart(MaxLiveWorkers) \/ SendInit \/ InitTray

\* The consumer thread: handle's loop
ConsumerThread == HandleStarted \/ HandleStopped \/ HandleInit

\* The runs in which the startup thread and the consumer thread take their
\* next step whenever they can. When a child is spawned or exits, when an
\* arbiter wakes and what the user does are left open.
SpecFair == SpecLive /\ WF_vars(StartupThread) /\ WF_vars(ConsumerThread)

\* The runs in which the sleep of every restart arbiter ends and the arbiter
\* gets the mutex
SpecArbiterFair == SpecLive /\ WF_vars(Arbiter(MaxLiveWorkers))

\* The runs in which nobody touches the tray: startup, the children and the
\* restart arbiters only.
NextCrash ==
    \/ PortCheck
    \/ Autostart(MaxCrashWorkers)
    \/ SendInit
    \/ InitTray
    \/ WorkerSpawn
    \/ WorkerExecFail
    \/ WorkerExecFallback
    \/ WorkerExit
    \/ HandleStarted
    \/ HandleStopped
    \/ HandleInit
    \/ Arbiter(MaxCrashWorkers)

SpecCrash == Init /\ [][NextCrash]_vars

\* The runs in which a module uses up its crash budget and the user touches
\* the tray only after that.
MaxBudgetWorkers == 5
MaxBudgetClicks == 1

\* A tray click once some module's restart_count has reached the limit
BudgetClick ==
    /\ \E n \in Names : Get(modules_restart_count, n, 0) = RestartLimit
    /\ Click(MaxBudgetWorkers, MaxBudgetClicks)

NextBudget ==
    \/ PortCheck
    \/ Autostart(MaxBudgetWorkers)
    \/ SendInit
    \/ InitTray
    \/ WorkerSpawn
    \/ WorkerExecFail
    \/ WorkerExecFallback
    \/ WorkerExit
    \/ HandleStarted
    \/ HandleStopped
    \/ HandleInit
    \/ Arbiter(MaxBudgetWorkers)
    \/ BudgetClick

SpecBudget == Init /\ [][NextBudget]_vars

\* ------------------------------------------------- the lock-level runs
\* Worker threads and tray clicks in the lock-level runs.
MaxLockWorkers == 2
MaxLockClicks == 1

\* The consumer that drops the MutexGuard between the mutation and update_tray_menu
guard_dropped_after_mutation == "free"

\* handle: the MutexGuard taken at the top of the loop body lives to its end
guard_after_mutation == "consumer"

\* handle: rx.recv() returns the next message
ConsumerRecv ==
    /\ ~exited
    /\ startup \in {"tray", "done"}
    /\ cpc = "recv"
    /\ chan # <<>>
    /\ cmsg' = Head(chan)
    /\ chan' = Tail(chan)
    /\ cpc' = "lock"
    /\ Step("recv", Head(chan).name)
    /\ UNCHANGED <<notlock, mutex, config, modules_discovered, lifecycle, workers, nextId, arbiters,
                   signalled, startup, auto_i, tray_ready, tray_menu, exited, history>>

\* handle: state.lock()
ConsumerLock ==
    /\ ~exited
    /\ cpc = "lock"
    /\ mutex = "free"
    /\ mutex' = "consumer"
    /\ cpc' = "mutate"
    /\ Step("lock", cmsg.name)
    /\ UNCHANGED <<notlock, cmsg, config, modules_discovered, lifecycle, chan, workers, nextId, arbiters,
                   signalled, startup, auto_i, tray_ready, tray_menu, exited, history>>

\* started_module / stopped_module up to their update_tray_menu call
ConsumerMutate ==
    /\ ~exited
    /\ cpc = "mutate"
    /\ CASE cmsg.type = "Started" -> started_module(cmsg.name, cmsg.pid, cmsg.args)
         [] cmsg.type = "Stopped" -> stopped_module(cmsg.name)
         [] OTHER -> UNCHANGED <<modules_running, modules_pid, modules_args,
                                 modules_pending_shutdown>>
    /\ mutex' = guard_after_mutation
    /\ cpc' = "project"
    /\ Step("mutate", cmsg.name)
    /\ UNCHANGED <<notlock, cmsg, config, modules_discovered, modules_restart_count, modules_menu_set,
                   chan, workers, nextId, arbiters, signalled, startup, auto_i, tray_ready,
                   tray_menu, exited, history>>

\* update_tray_menu: waits for the app handle and the tray id, builds the menu
\* from the state and sets it on the tray icon
ConsumerProject ==
    /\ ~exited
    /\ cpc = "project"
    /\ tray_ready
    /\ UNCHANGED lifecycle
    /\ update_tray_menu
    /\ cpc' = "finish"
    /\ Step("project", cmsg.name)
    /\ UNCHANGED <<notlock, mutex, cmsg, config, modules_discovered, chan, workers, nextId, arbiters,
                   signalled, startup, auto_i, tray_ready, exited, history>>

\* handle: a failing Stopped spawns the arbiter thread; the guard is dropped at
\* the end of the loop body
ConsumerFinish ==
    /\ ~exited
    /\ cpc = "finish"
    /\ arbiters' = IF cmsg.type = "Stopped" /\ ~cmsg.ok
                   THEN LET k == [name |-> cmsg.name,
                                  pend |-> Get(modules_pending_shutdown, cmsg.name, FALSE)]
                        IN  [arbiters EXCEPT ![k] = @ + 1]
                   ELSE arbiters
    /\ mutex' = "free"
    /\ cpc' = "recv"
    /\ Step("unlock", cmsg.name)
    /\ UNCHANGED <<notlock, cmsg, config, modules_discovered, lifecycle, chan, workers, nextId,
                   signalled, startup, auto_i, tray_ready, tray_menu, exited, history>>

\* The other threads take the mutex for one whole critical section.
LockedArbiter == mutex = "free" /\ Arbiter(MaxLockWorkers)
LockedClick == mutex = "free" /\ Click(MaxLockWorkers, MaxLockClicks)
LockedQuit == mutex = "free" /\ Quit

NextLock ==
    \/ PortCheck
    \/ Autostart(MaxLockWorkers)
    \/ SendInit
    \/ InitTray
    \/ WorkerSpawn
    \/ WorkerExecFail
    \/ WorkerExecFallback
    \/ WorkerExit
    \/ ConsumerRecv
    \/ ConsumerLock
    \/ ConsumerMutate
    \/ ConsumerProject
    \/ ConsumerFinish
    \/ LockedArbiter
    \/ LockedClick
    \/ LockedQuit

SpecLock == Init /\ [][NextLock]_vars

\* ------------------------------------------------ the aw-notify reader
\* Lines of stdout the reader runs are given.
MaxLines == 4

\* A line is the sequence of its characters, without the line terminator.
\* "-".repeat(n)
Dashes(n) == [i \in 1..n |-> "-"]

LineChoices == { Dashes(49), Dashes(50), Dashes(51), <<"a">>, <<"b">>, <<>>, <<" ">> }
StdoutChoices == UNION { [1..k -> LineChoices] : k \in 0..MaxLines }

\* A reader that takes any line of at least 50 dashes for a delimiter
is_delimiter_at_least(line) == Len(line) >= 50 /\ \A i \in 1..Len(line) : line[i] = "-"

\* line_content == "-".repeat(50)
is_delimiter(line) == line = Dashes(50)

\* A blank test that does not trim: line_content.is_empty()
is_empty_untrimmed(line) == line = <<>>

\* line_content.trim().is_empty()
trim_is_empty(line) == \A i \in 1..Len(line) : line[i] \in {" ", "\t"}

\* notification_content.join("\n")
RECURSIVE join(_)
join(ls) ==
    IF ls = <<>> THEN <<>>
    ELSE IF Len(ls) = 1 THEN ls[1]
    ELSE ls[1] \o <<"\n">> \o join(Tail(ls))

\* send_notification(content)
send_notification(content) == Append(notified, [title |-> "ActivityWatch", body |-> content])

\* The reader runs start when aw-notify has been spawned and its stdout is piped.
InitReader ==
    /\ InitSup
    /\ InitLock
    /\ InitStoreIdle
    /\ InitExtIdle
    /\ stdout \in StdoutChoices
    /\ rpc = "reading"
    /\ in_notification = FALSE
    /\ notification_content = <<>>
    /\ notified = <<>>
    /\ block = <<>>

\* One iteration of `for line in reader.lines()` with Ok(line_content)
ReadLine ==
    /\ rpc = "reading"
    /\ stdout # <<>>
    /\ LET line_content == Head(stdout)
       IN  IF is_delimiter(line_content)
           THEN IF in_notification
                THEN /\ IF notification_content # <<>>
                        THEN /\ notified' = send_notification(join(notification_content))
                             /\ notification_content' = <<>>
                        ELSE UNCHANGED <<notified, notification_content>>
                     /\ in_notification' = FALSE
                     /\ block' = <<>>
                ELSE /\ in_notification' = TRUE
                     /\ block' = <<>>
                     /\ UNCHANGED <<notified, notification_content>>
           ELSE /\ notification_content' =
                      IF in_notification /\ ~trim_is_empty(line_content)
                      THEN Append(notification_content, line_content)
                      ELSE notification_content
                /\ block' = IF in_notification THEN Append(block, line_content) ELSE block
                /\ UNCHANGED <<notified, in_notification>>
    /\ stdout' = Tail(stdout)
    /\ UNCHANGED <<rpc, sup, lockv, store, ext>>

\* reader.lines() ends: stdout has reached end-of-file
ReadEof ==
    /\ rpc = "reading"
    /\ stdout = <<>>
    /\ rpc' = "eof"
    /\ UNCHANGED <<stdout, in_notification, notification_content, notified, block, sup, lockv, store, ext>>

\* reader.lines() yields Err(e): the loop breaks
ReadError ==
    /\ rpc = "reading"
    /\ stdout # <<>>
    /\ rpc' = "broken"
    /\ UNCHANGED <<stdout, in_notification, notification_content, notified, block, sup, lockv, store, ext>>

\* After the loop: child.wait_with_output() returns once the child has exited,
\* with its exit status, and the Stopped message is sent; the thread ends
ReaderStopped ==
    /\ rpc \in {"eof", "broken"}
    /\ rpc' = "done"
    /\ \E ok \in BOOLEAN : chan' = Append(chan, StoppedMsg("aw-notify", ok))
    /\ UNCHANGED <<stdout, in_notification, notification_content, notified, block,
                   lockv, store, ext, config, modules_discovered, lifecycle, workers,
                   nextId, arbiters, signalled, startup, auto_i, tray_ready, tray_menu,
                   exited, spawned, execFailed, crashed, exitedOk, clicks, dialogs,
                   lastArgv, last>>

NextReader ==
    \/ ReadLine
    \/ ReadEof
    \/ ReadError
    \/ ReaderStopped

SpecReader == InitReader /\ [][NextReader]_vars

\* ================================================================ claims

(***************************************************************************)
(* The config store: get_config and the two OnceLocks behind it.  A file   *)
(* is a TOML document, modelled as the function from its top-level keys to *)
(* their values; three sentinels stand for a missing file, for a file that *)
(* cannot be read and for text that is not TOML.                           *)
(***************************************************************************)
MaxGetConfigCalls == 3

\* A string is the sequence of its characters; a run of characters that holds
\* neither a backslash nor a double quote, and follows no backslash, may be
\* written as one piece.
Esc == "\\"
Quote == "\""
HexDigits == {"0", "1", "a", "f"}

\* Values of HOME (Linux, macOS): unset, plain, and three with a character that
\* a TOML basic string treats specially
HomeChoices ==
    { None,
      Some(<<"/", "h">>),
      Some(<<"/", "h", Esc, "b">>),
      Some(<<"/", "h", Esc, "U", "s">>),
      Some(<<"/", "h", Quote, "s">>),
      Some(<<"/", "h", Esc, "u", "0", "0", "a", "1">>) }

\* dirs::get_discovery_paths: nothing without HOME, otherwise directories
\* under it (~/bin and ~/aw-modules stand for the four of the Linux build)
get_discovery_paths(home) ==
    IF home.some
    THEN << home.v \o <<"/", "bin">>, home.v \o <<"/", "aw-modules">> >>
    ELSE <<>>

\* impl Default for UserConfig (the non-Wayland module list)
DefaultUserConfig ==
    [port |-> DefaultPort,
     discovery_paths |-> dirs_paths,
     autostart |-> [enabled |-> TRUE,
                    minimized |-> TRUE,
                    modules |-> << [name |-> <<"aw-watcher-afk">>, args |-> None],
                                   [name |-> <<"aw-watcher-window">>, args |-> None],
                                   [name |-> <<"aw-sync">>, args |-> Some(<<"daemon">>)] >>]]

Absent == [absent |-> TRUE]
Unreadable == [unreadable |-> TRUE]
Garbage == [garbage |-> TRUE]

\* The keys serde requires of a UserConfig: no field has a serde default
RequiredKeys == {"port", "discovery_paths", "autostart"}

UserAutostart == [enabled |-> FALSE,
                  minimized |-> FALSE,
                  modules |-> << [name |-> <<"aw-notify">>, args |-> None] >>]

\* Documents a user may have left on disk: complete ones, and ones with one
\* top-level entry missing
FileChoices ==
    { Absent, Unreadable, Garbage,
      [port |-> 5601, discovery_paths |-> << <<"/", "opt", "/", "aw">> >>, autostart |-> UserAutostart],
      [port |-> DefaultPort, discovery_paths |-> <<>>, autostart |-> UserAutostart],
      [port |-> 5601, discovery_paths |-> << <<"/", "opt", "/", "aw">> >>],
      [discovery_paths |-> << <<"/", "opt", "/", "aw">> >>, autostart |-> UserAutostart] }

\* config_path.exists()
exists(f) == "absent" \notin DOMAIN f

\* read_to_string(&config_path) is Ok
readable(f) == exists(f) /\ "unreadable" \notin DOMAIN f

\* The toml parser on the characters between the quotes of a basic string: a
\* backslash starts an escape sequence (an unknown one is an error), and a
\* double quote ends the string early, which leaves text the grammar rejects
RECURSIVE basic_string(_)
basic_string(raw) ==
    LET Err == [ok |-> FALSE, v |-> <<>>]
        cons(c, r) == IF r.ok THEN [ok |-> TRUE, v |-> <<c>> \o r.v] ELSE r
        from(k) == basic_string(SubSeq(raw, k, Len(raw)))
        Escapes == [c \in {"b", "t", "n", "f", "r", Quote, Esc} |->
                      CASE c = "b" -> "<BS>" [] c = "t" -> "<TAB>" [] c = "n" -> "<LF>"
                        [] c = "f" -> "<FF>" [] c = "r" -> "<CR>" [] OTHER -> c]
        digits == IF raw[2] = "u" THEN 4 ELSE 8
    IN  IF raw = <<>> THEN [ok |-> TRUE, v |-> <<>>]
        ELSE IF Head(raw) = Quote THEN Err
        ELSE IF Head(raw) # Esc THEN cons(Head(raw), from(2))
        ELSE IF Len(raw) < 2 THEN Err
        ELSE IF raw[2] \in DOMAIN Escapes THEN cons(Escapes[raw[2]], from(3))
        ELSE IF /\ raw[2] \in {"u", "U"}
                /\ Len(raw) >= 2 + digits
                /\ \A k \in 3..(2 + digits) : raw[k] \in HexDigits
             THEN cons(<<"U+", SubSeq(raw, 3, 2 + digits)>>, from(3 + digits))
        ELSE Err

\* toml::from_str::<UserConfig>: Ok when the three fields are present (keys it
\* does not know are ignored) and every string parses, Err otherwise.  A
\* module entry is a bare string (Simple) or an inline table (Full).
from_str(f) ==
    IF ~(RequiredKeys \subseteq DOMAIN f)
    THEN [ok |-> FALSE, v |-> <<>>]
    ELSE LET paths == [i \in DOMAIN f.discovery_paths |-> basic_string(f.discovery_paths[i])]
             ms == f.autostart.modules
             names == [i \in DOMAIN ms |-> basic_string(ms[i].name)]
             args == [i \in DOMAIN ms |->
                        IF ms[i].args.some THEN basic_string(ms[i].args.v)
                        ELSE [ok |-> TRUE, v |-> <<>>]]
         IN  IF /\ \A i \in DOMAIN paths : paths[i].ok
                /\ \A i \in DOMAIN ms : names[i].ok /\ args[i].ok
             THEN [ok |-> TRUE,
                   v |-> [port |-> f.port,
                          discovery_paths |-> [i \in DOMAIN paths |-> paths[i].v],
                          autostart |->
                              [enabled |-> f.autostart.enabled,
                               minimized |-> f.autostart.minimized,
                               modules |-> [i \in DOMAIN ms |->
                                              [name |-> names[i].v,
                                               args |-> IF ms[i].args.some
                                                        THEN Some(args[i].v)
                                                        ELSE None]]]]]
             ELSE [ok |-> FALSE, v |-> <<>>]

\* The document write_formatted_config puts on disk: port, discovery_paths and
\* the [autostart] table, every string copied between double quotes character
\* by character (format!("\"{}\"") escapes nothing); a Simple entry becomes a
\* bare string and a Full entry an inline table with name and args
write_formatted_config(c) ==
    [port |-> c.port,
     discovery_paths |-> [i \in DOMAIN c.discovery_paths |-> c.discovery_paths[i]],
     autostart |-> [enabled |-> c.autostart.enabled,
                    minimized |-> c.autostart.minimized,
                    modules |-> [i \in DOMAIN c.autostart.modules |->
                                   [name |-> c.autostart.modules[i].name,
                                    args |-> c.autostart.modules[i].args]]]]

cache_forgotten(c) == FALSE

\* CONFIG.get_or_init runs its closure only while the cell is empty
cached(c) == c.some

parse_error_rewrites_file(f) == write_formatted_config(DefaultUserConfig)

\* The Err arm of the parse leaves the file as it is
file_after_parse_error(f) == f

\* The program starts with whatever the user left on disk
InitConfig ==
    /\ InitSup
    /\ InitLock
    /\ InitReaderIdle
    /\ InitExtIdle
    /\ cfg_file \in FileChoices
    /\ CONFIG = None
    /\ FIRST_RUN = None
    /\ cfg_ret = None
    /\ cfg_calls = 0
    /\ cfg_writes = 0
    /\ cfg_notes = 0
    /\ first_file = None
    /\ cfg_panic = FALSE
    /\ dirs_paths \in {get_discovery_paths(h) : h \in HomeChoices}

\* A call that finds the cell filled
GetConfigCached ==
    /\ ~cfg_panic
    /\ cfg_calls < MaxGetConfigCalls
    /\ cached(CONFIG)
    /\ cfg_calls' = cfg_calls + 1
    /\ cfg_ret' = CONFIG
    /\ UNCHANGED <<cfg_file, CONFIG, FIRST_RUN, cfg_writes, cfg_notes, first_file, cfg_panic>>
    /\ UNCHANGED <<sup, lockv, reader, dirs_paths, ext>>

\* A call that runs the closure and finds a file it can read
GetConfigLoad ==
    /\ ~cfg_panic
    /\ cfg_calls < MaxGetConfigCalls
    /\ ~cached(CONFIG)
    /\ readable(cfg_file)
    /\ cfg_calls' = cfg_calls + 1
    /\ first_file' = IF first_file.some THEN first_file ELSE Some(cfg_file)
    /\ IF FIRST_RUN.some
       THEN \* FIRST_RUN.set(false).expect(..)
            /\ cfg_panic' = TRUE
            /\ UNCHANGED <<cfg_file, CONFIG, FIRST_RUN, cfg_ret, cfg_writes, cfg_notes>>
       ELSE /\ FIRST_RUN' = Some(FALSE)
            /\ LET r == from_str(cfg_file)
               IN  IF r.ok
                   THEN /\ CONFIG' = Some(r.v)
                        /\ cfg_ret' = Some(r.v)
                        /\ UNCHANGED <<cfg_file, cfg_notes>>
                   ELSE /\ CONFIG' = Some(DefaultUserConfig)
                        /\ cfg_ret' = Some(DefaultUserConfig)
                        /\ cfg_notes' = cfg_notes + 1
                        /\ cfg_file' = file_after_parse_error(cfg_file)
            /\ UNCHANGED <<cfg_writes, cfg_panic>>
    /\ UNCHANGED <<sup, lockv, reader, dirs_paths, ext>>

\* A call that runs the closure and finds a file it cannot read: the expect on
\* read_to_string panics after FIRST_RUN was set
GetConfigUnreadable ==
    /\ ~cfg_panic
    /\ cfg_calls < MaxGetConfigCalls
    /\ ~cached(CONFIG)
    /\ exists(cfg_file)
    /\ ~readable(cfg_file)
    /\ cfg_calls' = cfg_calls + 1
    /\ first_file' = IF first_file.some THEN first_file ELSE Some(cfg_file)
    /\ FIRST_RUN' = IF FIRST_RUN.some THEN FIRST_RUN ELSE Some(FALSE)
    /\ cfg_panic' = TRUE
    /\ UNCHANGED <<cfg_file, CONFIG, cfg_ret, cfg_writes, cfg_notes>>
    /\ UNCHANGED <<sup, lockv, reader, dirs_paths, ext>>

\* A call that runs the closure and finds no file: first run, the defaults are
\* written
GetConfigFirstRun ==
    /\ ~cfg_panic
    /\ cfg_calls < MaxGetConfigCalls
    /\ ~cached(CONFIG)
    /\ ~exists(cfg_file)
    /\ cfg_calls' = cfg_calls + 1
    /\ first_file' = IF first_file.some THEN first_file ELSE Some(cfg_file)
    /\ IF FIRST_RUN.some
       THEN \* FIRST_RUN.set(true).expect(..)
            /\ cfg_panic' = TRUE
            /\ UNCHANGED <<cfg_file, CONFIG, FIRST_RUN, cfg_ret, cfg_writes>>
       ELSE /\ FIRST_RUN' = Some(TRUE)
            /\ CONFIG' = Some(DefaultUserConfig)
            /\ cfg_ret' = Some(DefaultUserConfig)
            /\ cfg_file' = write_formatted_config(DefaultUserConfig)
            /\ cfg_writes' = cfg_writes + 1
            /\ UNCHANGED cfg_panic
    /\ UNCHANGED cfg_notes
    /\ UNCHANGED <<sup, lockv, reader, dirs_paths, ext>>

\* The user (or another program) replaces or removes the file while the
\* program runs
EditFile ==
    /\ ~cfg_panic
    /\ \E f \in FileChoices :
          /\ f # cfg_file
          /\ cfg_file' = f
    /\ UNCHANGED <<CONFIG, FIRST_RUN, cfg_ret, cfg_calls, cfg_writes, cfg_notes,
                   first_file, cfg_panic>>
    /\ UNCHANGED <<sup, lockv, reader, dirs_paths, ext>>

\* The process ends and the program is launched again: both cells are empty
\* in the new process, the file and the environment are as they were left
Relaunch ==
    /\ cfg_calls > 0
    /\ CONFIG' = None
    /\ FIRST_RUN' = None
    /\ cfg_ret' = None
    /\ cfg_calls' = 0
    /\ cfg_writes' = 0
    /\ cfg_notes' = 0
    /\ first_file' = None
    /\ cfg_panic' = FALSE
    /\ UNCHANGED <<cfg_file, sup, lockv, reader, dirs_paths, ext>>

GetConfig ==
    \/ GetConfigCached
    \/ GetConfigLoad
    \/ GetConfigUnreadable
    \/ GetConfigFirstRun

NextConfig ==
    \/ GetConfig
    \/ EditFile
    \/ Relaunch

SpecConfig == InitConfig /\ [][NextConfig]_vars

(***************************************************************************)
(* discover_modules.  A directory is known by its canonical name; a path   *)
(* is the sequence of names from a search root down.  Of a directory's     *)
(* entries the model keeps what the loop acts on: whether it holds an      *)
(* executable named aw-sync, and where its one aw- subdirectory (entry     *)
(* "aw-d", possibly a symlink) leads.                                      *)
(***************************************************************************)
\* Longest path the operating system resolves: read_dir fails beyond it
MaxPathLen == 4

CanonDirs == {"A", "B", "P", "X"}

\* The filesystems: any set of directories holds aw-sync; A and X each have no
\* aw- subdirectory ("-") or one that resolves to A or to X
FsChoices ==
    { [d \in CanonDirs |->
          [files |-> IF d \in holders THEN {"aw-sync"} ELSE {},
           sub |-> IF d \in DOMAIN link THEN link[d] ELSE "-"]] :
      holders \in SUBSET CanonDirs, link \in [{"A", "X"} -> {"-", "A", "X"}] }

WorldChoices ==
    [build : {"unix", "windows"},
     fs : FsChoices,
     discovery_paths : {<<>>, <<"A">>, <<"A", "B">>, <<"B", "A">>, <<"P", "A">>},
     PATH : {<<>>, <<"P">>, <<"P", "A">>}]

\* for path in config.discovery_paths.iter(): insert at the front of paths
\* unless it is already there
RECURSIVE insert_missing(_, _)
insert_missing(paths, ds) ==
    IF ds = <<>> THEN paths
    ELSE insert_missing(
             IF Head(ds) \in {paths[i] : i \in DOMAIN paths} THEN paths
             ELSE <<Head(ds)>> \o paths,
             Tail(ds))

\* dir.canonicalize(): follow the entries from the root down
RECURSIVE canonicalize(_)
canonicalize(p) ==
    IF Len(p) = 1 THEN p[1]
    ELSE world.fs[canonicalize(SubSeq(p, 1, Len(p) - 1))].sub

\* What the loop puts into visited_dirs: the canonical path on unix, the path
\* as popped on windows
visited_key(dir) == IF world.build = "unix" THEN <<canonicalize(dir)>> ELSE dir

InitDiscover ==
    /\ InitSup
    /\ InitLock
    /\ InitReaderIdle
    /\ InitStoreIdle
    /\ InitWatch
    /\ InitLogsIdle
    /\ InitPathsIdle
    /\ InitSync
    /\ world \in WorldChoices
    /\ dirs_to_search = <<>>
    /\ visited_dirs = {}
    /\ found_modules = EmptyMap
    /\ reads = EmptyMap
    /\ dpc = "start"

\* The search roots are computed and become the initial stack (join_paths and
\* split_paths return the list for names without a separator character)
DiscoverStart ==
    /\ dpc = "start"
    /\ LET roots == insert_missing(world.PATH, world.discovery_paths)
       IN  dirs_to_search' = [i \in DOMAIN roots |-> <<roots[i]>>]
    /\ dpc' = "loop"
    /\ UNCHANGED <<world, visited_dirs, found_modules, reads>>
    /\ UNCHANGED <<sup, lockv, reader, store, watch, logs, pathv, sync>>

\* One iteration of the while loop: pop, skip if visited, otherwise read the
\* directory, record its executables and push its aw- subdirectory
DiscoverIterate ==
    /\ dpc = "loop"
    /\ dirs_to_search # <<>>
    /\ LET dir == dirs_to_search[Len(dirs_to_search)]
           rest == SubSeq(dirs_to_search, 1, Len(dirs_to_search) - 1)
           c == canonicalize(dir)
       IN  IF visited_key(dir) \in visited_dirs
           THEN /\ dirs_to_search' = rest
                /\ UNCHANGED <<visited_dirs, found_modules, reads>>
           ELSE /\ visited_dirs' = visited_dirs \cup {visited_key(dir)}
                /\ IF Len(dir) >= MaxPathLen
                   THEN /\ dirs_to_search' = rest
                        /\ UNCHANGED <<found_modules, reads>>
                   ELSE /\ reads' = Put(reads, c, Get(reads, c, 0) + 1)
                        /\ found_modules' =
                              [n \in DOMAIN found_modules \cup world.fs[c].files |->
                                  IF n \in world.fs[c].files THEN dir \o <<n>>
                                  ELSE found_modules[n]]
                        /\ dirs_to_search' =
                              IF world.fs[c].sub = "-" THEN rest
                              ELSE Append(rest, dir \o <<"aw-d">>)
    /\ UNCHANGED <<world, dpc>>
    /\ UNCHANGED <<sup, lockv, reader, store, watch, logs, pathv, sync>>

\* The stack is empty: found_modules is returned
DiscoverReturn ==
    /\ dpc = "loop"
    /\ dirs_to_search = <<>>
    /\ dpc' = "done"
    /\ UNCHANGED <<world, dirs_to_search, visited_dirs, found_modules, reads>>
    /\ UNCHANGED <<sup, lockv, reader, store, watch, logs, pathv, sync>>

NextDiscover ==
    \/ DiscoverStart
    \/ DiscoverIterate
    \/ DiscoverReturn

SpecDiscover == InitDiscover /\ [][NextDiscover]_vars

(***************************************************************************)
(* The lock-file watcher: listen_for_lockfile's thread, the events the     *)
(* notify watcher delivers on its channel, and the single-instance         *)
(* callback that touches the lock file when the program is launched again. *)
(***************************************************************************)
MaxLaunches == 3
MaxWatchEvents == 3

\* The callback opens the lock file with create and truncate: a new file is
\* reported as a Create event, an existing one as a Modify event
SecondLaunch ==
    /\ launches < MaxLaunches
    /\ launches' = launches + 1
    /\ lock_file' = TRUE
    /\ wevents' = Append(wevents, [kind |-> IF lock_file THEN "Modify" ELSE "Create",
                                   target |-> TRUE])
    /\ UNCHANGED <<wpc, shown>>
    /\ UNCHANGED <<sup, lockv, reader, store, discover, logs, pathv, sync>>

\* The watcher reports something else: an event for another file of the
\* runtime directory, or an error
OtherEvent ==
    /\ Len(wevents) < MaxWatchEvents
    /\ \E e \in {[kind |-> "Create", target |-> FALSE],
                  [kind |-> "Modify", target |-> FALSE],
                  [kind |-> "Error", target |-> FALSE]} :
          wevents' = Append(wevents, e)
    /\ UNCHANGED <<lock_file, wpc, launches, shown>>
    /\ UNCHANGED <<sup, lockv, reader, store, discover, logs, pathv, sync>>

\* wait_for_file receives one event: a Create or Modify of the lock file makes
\* it return Ok, anything else is passed over
WaitForFile ==
    /\ wpc = "waiting"
    /\ wevents # <<>>
    /\ wevents' = Tail(wevents)
    /\ wpc' = IF Head(wevents).target /\ Head(wevents).kind \in {"Create", "Modify"}
              THEN "returned" ELSE "waiting"
    /\ UNCHANGED <<lock_file, launches, shown>>
    /\ UNCHANGED <<sup, lockv, reader, store, discover, logs, pathv, sync>>

\* After wait_for_file returned Ok: remove_file(..).expect(..), then the main
\* window is shown; removing reports a Remove event
RemoveAndShow ==
    /\ wpc = "returned"
    /\ IF lock_file
       THEN /\ lock_file' = FALSE
            /\ wevents' = Append(wevents, [kind |-> "Remove", target |-> TRUE])
            /\ shown' = shown + 1
            /\ wpc' = "waiting"
       ELSE /\ wpc' = "panicked"
            /\ UNCHANGED <<lock_file, wevents, shown>>
    /\ UNCHANGED launches
    /\ UNCHANGED <<sup, lockv, reader, store, discover, logs, pathv, sync>>

Watcher ==
    \/ WaitForFile
    \/ RemoveAndShow

NextWatch ==
    \/ SecondLaunch
    \/ OtherEvent
    \/ Watcher

SpecWatch == Init /\ [][NextWatch]_vars

\* The watcher thread is scheduled as long as it has something to do
SpecWatchFair == SpecWatch /\ WF_vars(Watcher)

(***************************************************************************)
(* Log rotation at startup: rotate_log_if_needed and cleanup_old_logs.     *)
(***************************************************************************)
MAX_LOG_SIZE == 32 * 1024 * 1024
MAX_ROTATED_LOGS == 5

\* Rotated logs that may lie in the log directory before the start
MaxOldLogs == 6
OldLogNames == <<"a", "b", "c", "d", "e", "f", "g">>
MaxMtime == 2

exceeds_or_equals(file_size) == file_size >= MAX_LOG_SIZE

\* The negation of "if file_size <= MAX_LOG_SIZE { return Ok(()) }"
exceeds(file_size) == ~(file_size <= MAX_LOG_SIZE)

\* cleanup_old_logs: the entries are sorted by mtime, newest first, and all
\* but the first MAX_ROTATED_LOGS are removed.  read_dir yields the entries in
\* no particular order, so among entries of equal mtime any may come first:
\* the sets that can remain are those of the right size with no removed entry
\* newer than a kept one.
survivors(entries) ==
    { K \in SUBSET DOMAIN entries :
         /\ Cardinality(K) = IF Cardinality(DOMAIN entries) < MAX_ROTATED_LOGS
                             THEN Cardinality(DOMAIN entries) ELSE MAX_ROTATED_LOGS
         /\ \A k \in K : \A r \in DOMAIN entries \ K : entries[r] <= entries[k] }

\* The log directory as the program finds it at startup
InitLogs ==
    /\ InitSup
    /\ InitLock
    /\ InitReaderIdle
    /\ InitStoreIdle
    /\ InitDiscoverIdle
    /\ InitWatch
    /\ InitPathsIdle
    /\ InitSync
    /\ log_file \in
          {[exists |-> FALSE, size |-> 0, mtime |-> 0]} \cup
          [exists : {TRUE},
           size : {0, MAX_LOG_SIZE - 1, MAX_LOG_SIZE, MAX_LOG_SIZE + 1, 2 * MAX_LOG_SIZE},
           mtime : 1..MaxMtime]
    /\ \E n \in 0..MaxOldLogs :
          rotated \in [{OldLogNames[i] : i \in 1..n} -> 1..MaxMtime]
    /\ lpc = "start"

\* rotate_log_if_needed, with cleanup_old_logs when it renames; "new" stands
\* for the timestamped name
RotateLogIfNeeded ==
    /\ lpc = "start"
    /\ lpc' = "done"
    /\ IF log_file.exists /\ exceeds(log_file.size)
       THEN /\ log_file' = [exists |-> FALSE, size |-> 0, mtime |-> 0]
            /\ LET entries == Put(rotated, "new", log_file.mtime)
               IN  \E K \in survivors(entries) : rotated' = [k \in K |-> entries[k]]
       ELSE UNCHANGED <<log_file, rotated>>
    /\ UNCHANGED <<sup, lockv, reader, store, discover, watch, pathv, sync>>

NextLogs == RotateLogIfNeeded

SpecLogs == InitLogs /\ [][NextLogs]_vars

\* ------------------------------------------------- dirs.rs: the path getters
\* get_config_path and get_log_path, over a file system of directories and
\* files given by their components. The base directories are whatever appdirs
\* answers (None for Err(())).
MaxPathCalls == 3

ConfigBase == <<"h", ".config", "activitywatch">>
CacheBase == <<"h", ".cache", "activitywatch">>
LogBase == <<"h", "logs", "activitywatch">>

AppdirsChoices ==
    {[linux |-> TRUE, user_config_dir |-> c, user_cache_dir |-> l, user_log_dir |-> None] :
        c \in {None, Some(ConfigBase)}, l \in {None, Some(CacheBase)}}
    \cup
    {[linux |-> FALSE, user_config_dir |-> c, user_cache_dir |-> None, user_log_dir |-> l] :
        c \in {None, Some(ConfigBase)}, l \in {None, Some(LogBase)}}

Prefixes(p) == {SubSeq(p, 1, i) : i \in 0..Len(p)}
parent(p) == SubSeq(p, 1, Len(p) - 1)

\* Every directory the getters can name, on either platform
AllDirs ==
    Prefixes(ConfigBase \o <<"aw-tauri">>) \cup Prefixes(CacheBase \o <<"aw-tauri", "log">>)
        \cup Prefixes(LogBase \o <<"aw-tauri">>)

\* The file systems the getters can start from: the root exists, a directory's
\* parent is a directory, and at most one of the names is taken by a file.
FsStartChoices ==
    {[dirs |-> d, files |-> f] :
        d \in {x \in SUBSET AllDirs : <<>> \in x /\ \A q \in x : q = <<>> \/ parent(q) \in x},
        f \in {x \in SUBSET AllDirs : Cardinality(x) <= 1}}

FsStart(linux) ==
    {w \in FsStartChoices :
        /\ \A q \in w.files : q # <<>> /\ q \notin w.dirs /\ parent(q) \in w.dirs
        /\ \A q \in w.dirs \cup w.files :
              /\ linux => ~(Len(q) >= 2 /\ q[2] = "logs")
              /\ ~linux => ~(Len(q) >= 2 /\ q[2] = ".cache")}

\* A directory getter that returns its path without creating anything
create_dir_all_skipped(p) == [ok |-> TRUE, dirs |-> fs_dirs]

\* fs::create_dir_all(p): creates p and every missing ancestor; fails when one
\* of the names is taken by a file
create_dir_all(p) ==
    IF \E q \in Prefixes(p) : q \in fs_files
    THEN [ok |-> FALSE, dirs |-> fs_dirs]
    ELSE [ok |-> TRUE, dirs |-> fs_dirs \cup Prefixes(p)]

\* The directory getters: "err" is Err(()) from the `?`, "panic" the expect on
\* create_dir_all
dir_result(base, pushed) ==
    IF ~base.some
    THEN [res |-> "err", dir |-> <<>>, dirs |-> fs_dirs]
    ELSE LET dir == base.v \o pushed
             made == create_dir_all(dir)
         IN  IF made.ok
             THEN [res |-> "ok", dir |-> dir, dirs |-> made.dirs]
             ELSE [res |-> "panic", dir |-> <<>>, dirs |-> fs_dirs]

get_config_dir == dir_result(appdirs.user_config_dir, <<"aw-tauri">>)

get_log_dir ==
    IF appdirs.linux
    THEN dir_result(appdirs.user_cache_dir, <<"aw-tauri", "log">>)
    ELSE dir_result(appdirs.user_log_dir, <<"aw-tauri">>)

InitPaths ==
    /\ InitSup /\ InitLock /\ InitReaderIdle /\ InitStoreIdle
    /\ InitDiscoverIdle /\ InitWatch /\ InitLogsIdle /\ InitSync
    /\ appdirs \in AppdirsChoices
    /\ \E w \in FsStart(appdirs.linux) : fs_dirs = w.dirs /\ fs_files = w.files
    /\ path_calls = 0
    /\ path_last = [fn |-> "", res |-> "", path |-> <<>>, created |-> {}]
    /\ path_first = [fn \in {"get_config_path", "get_log_path"} |-> None]

\* A getter: the directory getter's Ok is unwrapped by expect (anything else
\* panics), and the file name is pushed
path_getter(fn, got, file) ==
    /\ path_calls < MaxPathCalls
    /\ path_calls' = path_calls + 1
    /\ fs_dirs' = got.dirs
    /\ IF got.res = "ok"
       THEN LET path == got.dir \o <<file>>
            IN  /\ path_last' = [fn |-> fn, res |-> "ok", path |-> path,
                                 created |-> got.dirs \ fs_dirs]
                /\ path_first' = IF path_first[fn].some THEN path_first
                                 ELSE [path_first EXCEPT
                                          ![fn] = Some([path |-> path,
                                                        created |-> got.dirs \ fs_dirs])]
       ELSE /\ path_last' = [fn |-> fn, res |-> "panic", path |-> <<>>, created |-> {}]
            /\ UNCHANGED path_first
    /\ UNCHANGED <<sup, lockv, reader, store, discover, watch, logs, appdirs, fs_files, sync>>

GetConfigPath == path_getter("get_config_path", get_config_dir, "config.toml")

GetLogPath == path_getter("get_log_path", get_log_dir, "aw-tauri.log")

NextPaths == GetConfigPath \/ GetLogPath

SpecPaths == InitPaths /\ [][NextPaths]_vars

\* ------------------------------------------ the locks and who takes them
\* M is the lifecycle mutex (Arc<Mutex<ManagerState>>), H the lock of
\* HANDLE_CONDVAR, A the Mutex<AppHandle> inside HANDLE, T the lock of
\* TRAY_CONDVAR. A thread runs a script of lock operations; a guard is released
\* where the source drops it.
MaxSyncRuns == 2

Acq(l) == [op |-> "acq", on |-> l]
Rel(l) == [op |-> "rel", on |-> l]
CvWait(l) == [op |-> "wait", on |-> l]
CvSet(l) == [op |-> "set", on |-> l]
Spawn(t) == [op |-> "spawn", on |-> t]

ArbiterIds == {"arbiter" \o ToString(i) : i \in 1..MaxSyncRuns}

\* run (setup) and start_manager: init_app_handle, get_config (with or without
\* its dialog), one start_module per autostart entry, the read of
\* modules_menu_set, the consumer thread, init_tray_id, on_menu_event,
\* handle_first_run, listen_for_lockfile
StartupScripts ==
    {<<Acq("H"), CvSet("H"), Rel("H")>> \o dialog
        \o <<Acq("M"), Rel("M"), Spawn("notify"), Acq("M"), Rel("M"), Acq("M"), Rel("M"),
             Spawn("consumer"), Acq("T"), CvSet("T"), Rel("T"), Spawn("gui"),
             Spawn("firstrun"), Spawn("lockfile")>> :
        dialog \in {<<>>, <<Acq("A"), Rel("A")>>}}

\* update_tray_menu with get_tray_id inside it
Projection ==
    <<Acq("H"), CvWait("H"), Acq("A"), Acq("T"), CvWait("T"), Rel("T"), Rel("A"), Rel("H")>>

\* handle: one iteration of the loop, for Started, a clean Stopped or Init, and
\* for a failing Stopped
ConsumerScripts ==
    {<<Acq("M")>> \o Projection \o <<Rel("M")>>,
     <<Acq("M")>> \o Projection \o <<Spawn("arbiter"), Rel("M")>>}

\* The arbiter that asks for the app handle before the lifecycle mutex
ArbiterScripts_handle_first ==
    {<<Acq("A"), Acq("M"), Rel("M"), Rel("A")>>}

\* The arbiter closure: the pending_shutdown return, and the two dialog branches
ArbiterScripts ==
    {<<Acq("M"), Rel("M")>>,
     <<Acq("M"), Acq("A"), Rel("A"), Rel("M")>>}

\* send_notification, the first-run thread and the lock-file thread
HandleScripts == {<<Acq("A"), Rel("A")>>}

\* on_menu_event: quit and the module clicks
GuiScripts == {<<Acq("M"), Rel("M")>>}

ScriptsOf(t) ==
    IF t = "startup" THEN StartupScripts
    ELSE IF t = "consumer" THEN ConsumerScripts
    ELSE IF t = "gui" THEN GuiScripts
    ELSE IF t \in ArbiterIds THEN ArbiterScripts
    ELSE HandleScripts

\* How often a thread goes through one of its scripts
RunsOf(t) == IF t \in {"consumer", "gui"} THEN MaxSyncRuns ELSE 1

Active(t) == t \in DOMAIN sync.threads /\ sync.threads[t].pc <= Len(sync.threads[t].script)

Without(held, l) == SelectSeq(held, LAMBDA x : x # l)

NewThread == [script |-> <<>>, pc |-> 1, held |-> <<>>, waiting |-> FALSE, runs |-> 0]

\* The thread id a spawn creates: the next arbiter, or the named thread
SpawnId(name) ==
    IF name = "arbiter"
    THEN "arbiter" \o ToString(Cardinality(DOMAIN sync.threads \cap ArbiterIds) + 1)
    ELSE name

\* A thread that is between scripts starts its next one
Begin(t) ==
    /\ t \in DOMAIN sync.threads
    /\ ~Active(t)
    /\ sync.threads[t].runs < RunsOf(t)
    /\ \E sc \in ScriptsOf(t) :
          sync' = [sync EXCEPT !.threads[t] =
                      [@ EXCEPT !.script = sc, !.pc = 1, !.runs = @ + 1]]

\* The next operation of a thread's script
Perform(t) ==
    /\ Active(t)
    /\ LET th == sync.threads[t]
           o == th.script[th.pc]
           l == o.on
       IN  CASE o.op = "acq" ->
                  /\ sync.owner[l] = "free"
                  /\ sync' = [sync EXCEPT !.owner[l] = t,
                                          !.threads[t].held = Append(@, l),
                                          !.threads[t].pc = @ + 1]
             [] o.op = "rel" ->
                  sync' = [sync EXCEPT !.owner[l] = "free",
                                       !.threads[t].held = Without(@, l),
                                       !.threads[t].pc = @ + 1]
             [] o.op = "set" ->
                  sync' = [sync EXCEPT !.flag[l] = TRUE, !.threads[t].pc = @ + 1]
             [] o.op = "wait" ->
                  IF sync.flag[l]
                  THEN IF th.waiting
                       THEN /\ sync.owner[l] = "free"
                            /\ sync' = [sync EXCEPT !.owner[l] = t,
                                                    !.threads[t].held = Append(@, l),
                                                    !.threads[t].waiting = FALSE,
                                                    !.threads[t].pc = @ + 1]
                       ELSE sync' = [sync EXCEPT !.threads[t].pc = @ + 1]
                  ELSE /\ ~th.waiting
                       /\ sync' = [sync EXCEPT !.owner[l] = "free",
                                               !.threads[t].held = Without(@, l),
                                               !.threads[t].waiting = TRUE]
             [] o.op = "spawn" ->
                  LET id == SpawnId(l)
                      started == [x \in DOMAIN sync.threads \cup {id} |->
                                     IF x = t THEN [th EXCEPT !.pc = @ + 1]
                                     ELSE IF x = id THEN NewThread
                                     ELSE sync.threads[x]]
                  IN  sync' = [sync EXCEPT !.threads = started]

ThreadStep(t) ==
    /\ Begin(t) \/ Perform(t)
    /\ UNCHANGED <<sup, lockv, reader, store, discover, watch, logs, pathv>>

ThreadIds == {"startup", "consumer", "gui", "notify", "firstrun", "lockfile"} \cup ArbiterIds

NextSync == \E t \in ThreadIds : ThreadStep(t)

\* The scripts do not depend on the installation
InitSyncRun == Init /\ config.autostart = <<EntrySync, EntryNotify>>

SpecSync == InitSyncRun /\ [][NextSync]_vars

\* C1: in every reachable state and for every module name, modules_pid has an
\* entry for the name if and only if modules_running maps the name to true.
C1_PidIffRunning ==
    \A n \in Names : (n \in DOMAIN modules_pid) <=> is_module_running(n)

\* C1 witness: the consumer has just handled a Stopped message of one module
\* (flag false, no pid) while another module is running with its pid recorded.
C1_Witness ==
    /\ last.op \in {"stopped_ok", "stopped_fail"}
    /\ last.name \in DOMAIN modules_running
    /\ ~modules_running[last.name]
    /\ last.name \notin DOMAIN modules_pid
    /\ \E m \in Names \ {last.name} : is_module_running(m) /\ m \in DOMAIN modules_pid

\* The arbiter of kind a takes its step (its thread wakes and ends)
ArbiterStep(a) == arbiters'[a] < arbiters[a]

\* C2: an arbiter created for a failing Stopped message that was consumed while
\* pending_shutdown[name] was true leaves restart_count[name] unchanged and
\* requests no spawn, whatever happened during its delay.
C2_PendingStopNeverRestarts ==
    [][\A a \in ArbiterKinds :
          (a.pend /\ ArbiterStep(a))
             => /\ Get(modules_restart_count', a.name, 0) = Get(modules_restart_count, a.name, 0)
                /\ workers' = workers]_vars

\* C3: restart_count never exceeds 3, and an arbiter that wakes when the count is
\* already 3 restarts nothing (the count stays, no spawn is requested), also when
\* other arbiters of the same module are still asleep.
C3_RestartCountAtMostThree ==
    [][/\ \A n \in Names : Get(modules_restart_count', n, 0) <= 3
       /\ \A a \in ArbiterKinds :
             (ArbiterStep(a) /\ Get(modules_restart_count, a.name, 0) = 3)
                => /\ Get(modules_restart_count', a.name, 0) = 3
                   /\ workers' = workers]_vars

\* C3 witness: an arbiter has just found the count at 3 and shown the limit
\* dialog while another arbiter of the same module is still asleep.
C3_Witness ==
    /\ last.op = "arbiter_limit"
    /\ Get(modules_restart_count, last.name, 0) = 3
    /\ <<last.name, "limit">> \in dialogs
    /\ \E a \in ArbiterKinds : a.name = last.name /\ arbiters[a] > 0

\* C4: a module that exits non-zero after every spawn and is never clicked is
\* spawned at most 4 times (1 start and 3 automatic restarts), its restart_count
\* moves through 1, 2, 3 by single steps, and the limit dialog is shown only
\* when 4 children have been spawned and the count is 3.
C4_CrashLoopFourSpawns ==
    [][\A n \in Names :
          (n \notin exitedOk' /\ n \notin execFailed' /\ clicks'[n] = <<>>)
             => /\ spawned'[n] <= 4
                /\ Get(modules_restart_count', n, 0)
                      \in {Get(modules_restart_count, n, 0), Get(modules_restart_count, n, 0) + 1}
                /\ <<n, "limit">> \in dialogs'
                      => /\ spawned'[n] = 4
                         /\ Get(modules_restart_count', n, 0) = 3]_vars

\* C5: restart_count[name] changes only by +1, in the step of a restart arbiter
\* of that module (so after a failing exit of the module) that finds
\* pending_shutdown[name] false and the count below 3; no other step (Started or
\* Stopped consumption, autostart, tray click, quit) changes or resets it.
C5_CountChangesOnlyInArbiter ==
    [][\A n \in Names :
          Get(modules_restart_count', n, 0) # Get(modules_restart_count, n, 0)
             => /\ Get(modules_restart_count', n, 0) = Get(modules_restart_count, n, 0) + 1
                /\ Get(modules_restart_count, n, 0) < 3
                /\ ~Get(modules_pending_shutdown, n, FALSE)
                /\ n \in crashed
                /\ \E a \in ArbiterKinds : a.name = n /\ ArbiterStep(a)
                /\ (n \in DOMAIN modules_restart_count) => (n \in DOMAIN modules_restart_count')]_vars

\* C5 witness: a module whose count an arbiter has raised is then stopped by a
\* tray click, and the count is still in place.
C5_Witness ==
    /\ last.op = "click_stop"
    /\ Get(modules_restart_count, last.name, 0) >= 1
    /\ Get(modules_pending_shutdown, last.name, FALSE)
    /\ <<last.name, "restarting">> \in dialogs

\* C6: a tray click on a running module sets pending_shutdown[name] and signals
\* the child whose pid is recorded; once the module's flag is false again and the
\* stop click is the only click on it, no step raises restart_count[name] or
\* creates a worker thread for the module.
C6_UserStopIsFinal ==
    [][\A n \in Names :
          /\ (clicks'[n] # clicks[n] /\ is_module_running(n))
                => /\ Get(modules_pending_shutdown', n, FALSE)
                   /\ n \in DOMAIN modules_pid
                   /\ signalled' = send_sigterm(signalled, modules_pid[n])
          /\ (clicks[n] = <<"stop">> /\ clicks'[n] = clicks[n] /\ ~is_module_running(n))
                => /\ Get(modules_restart_count', n, 0) = Get(modules_restart_count, n, 0)
                   /\ \A w \in DOMAIN workers' \ DOMAIN workers : workers'[w].name # n]_vars

\* C7: when a module that the user stopped by a tray click is clicked again, the
\* click creates a worker thread for it whose child receives the argument list of
\* the module's latest child.
C7_ClickStartsWithLastArgs ==
    [][\A n \in Names :
          (clicks[n] = <<"stop">> /\ clicks'[n] = <<"stop", "start">> /\ n \in DOMAIN lastArgv)
             => \E w \in DOMAIN workers' \ DOMAIN workers :
                   /\ workers'[w].name = n
                   /\ ChildArgv(workers'[w].kind, workers'[w].custom) = lastArgv[n]]_vars

\* The argument options start_module is called with
ArgChoices == {None, Some(<<"daemon">>)}

\* C8: in every reachable state, start_module on a module whose running flag is
\* true creates no worker thread, and stop_module on a module whose flag is not
\* true marks nothing as pending and sends no signal; neither touches another
\* field of the lifecycle state.
C8_StartStopIdempotent ==
    \A n \in Names :
        /\ is_module_running(n)
              => \A args \in ArgChoices : StartWorkers(workers, nextId, n, args) = workers
        /\ ~is_module_running(n)
              => /\ StopPending(modules_pending_shutdown, n) = modules_pending_shutdown
                 /\ StopSignals(signalled, n) = signalled

\* C8 witness: an arbiter has called start_module for a module that was running
\* (another start had won the race) and no worker thread was created, while
\* another module is stopped.
C8_Witness ==
    /\ last.op = "arbiter_restart"
    /\ is_module_running(last.name)
    /\ \A w \in DOMAIN workers : workers[w].name = last.name => workers[w].pc # "new"
    /\ \E m \in DOMAIN modules_running : ~modules_running[m]

\* The names of config.autostart.modules
AutostartNames == { config.autostart[i].name : i \in 1..Len(config.autostart) }

\* C9: a discovered module named in autostart.modules, none of whose children
\* crashed and whose tray item was never clicked, never has a second child
\* spawned, and once start_manager has gone through the list and its worker
\* thread has run the exec successfully it has exactly one.
C9_AutostartSpawnsOnce ==
    \A n \in AutostartNames \cap modules_discovered :
        (n \notin crashed /\ clicks[n] = <<>>)
           => /\ spawned[n] <= 1
              /\ (/\ startup \in {"tray", "done"}
                  /\ n \notin execFailed
                  /\ \A w \in DOMAIN workers : workers[w].name = n => workers[w].pc # "new")
                    => spawned[n] = 1

\* C10: the Modules submenu of every projected menu holds exactly the keys of
\* modules_running and the discovered names, each once: first one checkable
\* item per key of modules_running, checked as its flag says, then one
\* non-checkable item per discovered name without a modules_running entry.
C10_MenuIsRunningThenDiscovered ==
    tray_menu.full =>
        LET items == tray_menu.modules
            k == Cardinality(DOMAIN modules_running)
        IN  /\ MenuIds(tray_menu) = (DOMAIN modules_running) \cup modules_discovered
            /\ Len(items) = Cardinality(MenuIds(tray_menu))
            /\ \A i \in 1..Len(items) :
                  IF i <= k
                  THEN /\ items[i].checkable
                       /\ items[i].id \in DOMAIN modules_running
                       /\ items[i].checked = modules_running[items[i].id]
                  ELSE /\ ~items[i].checkable
                       /\ items[i].id \in modules_discovered \ DOMAIN modules_running

\* C10 witness: a menu projected by the consumer of a Started or Stopped message
\* that has a checked item and a plain item for a discovered module that was
\* never started.
C10_Witness ==
    /\ tray_menu.full
    /\ \E i \in 1..Len(tray_menu.modules) :
          tray_menu.modules[i].checkable /\ tray_menu.modules[i].checked
    /\ \E i \in 1..Len(tray_menu.modules) : ~tray_menu.modules[i].checkable
    /\ last.op \in {"started", "stopped_ok", "stopped_fail"}

\* The check marks of the installed menu are the running flags
MenuMarksRunning ==
    /\ { tray_menu.modules[i].id : i \in { j \in 1..Len(tray_menu.modules) :
                                               tray_menu.modules[j].checkable } }
          = DOMAIN modules_running
    /\ \A i \in 1..Len(tray_menu.modules) :
          tray_menu.modules[i].checkable
             => tray_menu.modules[i].checked = modules_running[tray_menu.modules[i].id]

\* C11: the tray menu is replaced only by the consumer thread, in a step it takes
\* holding the lifecycle mutex; the consumer holds the mutex from before the
\* mutation until after the projection; and whenever the consumer is outside its
\* critical section the installed menu's check marks equal modules_running.
C11_MenuProjectedUnderLock ==
    [][/\ tray_menu' # tray_menu
             => (mutex = "consumer" /\ mutex' = "consumer" /\ cpc = "project")
       /\ cpc' \in {"mutate", "project", "finish"} => mutex' = "consumer"
       /\ (mutex' # "consumer" /\ tray_menu'.full) => MenuMarksRunning']_vars

\* C11 witness: the consumer has applied a Stopped message and not yet projected
\* it (the installed menu still shows the module checked), it holds the mutex,
\* and a restart arbiter is waiting to run.
C11_Witness ==
    /\ cpc = "project"
    /\ mutex = "consumer"
    /\ cmsg.type = "Stopped"
    /\ tray_menu.full
    /\ ~MenuMarksRunning
    /\ \E a \in ArbiterKinds : arbiters[a] > 0

\* C12: start_module for a name that is not a key of modules_discovered creates
\* no worker thread in any reachable state, and the autostart step for such a
\* name sends no message, changes no lifecycle state and does not end the
\* supervisor (start_manager goes on to the next entry).
C12_UndiscoveredStartIsDropped ==
    [][/\ \A n \in Names \ modules_discovered : \A args \in ArgChoices :
             StartWorkers(workers, nextId, n, args) = workers
       /\ (auto_i' # auto_i /\ last'.name \notin modules_discovered)
             => /\ workers' = workers
                /\ chan' = chan
                /\ UNCHANGED lifecycle
                /\ ~exited'
                /\ startup' = "autostart"]_vars

\* C12 witness: autostart named aw-notify, which was not discovered; nothing was
\* spawned for it, and the next entry, aw-sync, was started and is running.
C12_Witness ==
    /\ "aw-notify" \in AutostartNames \ modules_discovered
    /\ auto_i > Len(config.autostart)
    /\ spawned["aw-notify"] = 0
    /\ "aw-notify" \notin DOMAIN modules_running
    /\ is_module_running("aw-sync")

\* A worker's spawn has just failed (either branch of the error handling)
ExecFailStep ==
    /\ last'.op \in {"exec_fail", "exec_fallback"}
    /\ (last' # last \/ workers' # workers)

\* A failed spawn leaves the channel, the module's entries and the arbiters alone
ExecFailKeepsState ==
    /\ chan' = chan
    /\ UNCHANGED <<modules_running, modules_pid, modules_args, modules_pending_shutdown>>
    /\ arbiters' = arbiters
    /\ nextId' = nextId

\* C13 as stated: when a spawn fails the worker sends nothing, the module's
\* running, pid, args and pending_shutdown entries stay, and no retry is
\* scheduled: the worker thread ends and nothing takes its place.
C13_ExecFailNoRetry ==
    [][ExecFailStep
          => /\ ExecFailKeepsState
             /\ \E w \in DOMAIN workers : workers' = Del(workers, w)]_vars

\* C13 amended: the same, except that the aw-notify worker whose spawn error
\* names the rejected --output-only option makes a new spawn attempt.
C13_ExecFailNoRetryButFallback ==
    [][ExecFailStep
          => /\ ExecFailKeepsState
             /\ IF last'.op = "exec_fail"
                THEN \E w \in DOMAIN workers : workers' = Del(workers, w)
                ELSE /\ last'.name = "aw-notify"
                     /\ \E w \in DOMAIN workers' :
                           workers'[w].name = "aw-notify" /\ workers'[w].pc = "new"]_vars

\* C13 witness: a spawn of an autostarted module has failed; the module has no
\* running entry, no worker, no message in the channel and no arbiter.
C13_Witness ==
    /\ last.op = "exec_fail"
    /\ last.name \in execFailed
    /\ last.name \notin DOMAIN modules_running
    /\ \A w \in DOMAIN workers : workers[w].name # last.name
    /\ \A i \in 1..Len(chan) : chan[i].name # last.name
    /\ \A a \in ArbiterKinds : arbiters[a] = 0

\* C14: after aw-notify's spawn has failed with the error that names the rejected
\* --output-only option, the module's next spawn attempt is a generic one: its
\* argument list has no --output-only and its thread is not the notify handler
\* (which is also what bounds the attempts: only the notify handler falls back).
C14_FallbackIsGeneric ==
    [][(last'.op = "exec_fallback" /\ last' # last)
          => \A w \in DOMAIN workers' :
                (workers'[w].name = last'.name /\ workers'[w].pc = "new")
                   => /\ workers'[w].kind = "generic"
                      /\ LET argv == ChildArgv(workers'[w].kind, workers'[w].custom)
                         IN  \A i \in 1..Len(argv) : argv[i] # "--output-only"]_vars

\* The reader has just taken the first line of stdout
ReadStep == rpc = "reading" /\ stdout # <<>> /\ stdout' = Tail(stdout)

\* The lines of the open block that are not blank
BlockBody == SelectSeq(block, LAMBDA l : ~trim_is_empty(l))

\* C15 as stated: exactly the 50-dash line toggles the flag; every closing
\* delimiter dispatches one ActivityWatch notification whose body is the block's
\* non-blank lines joined by newlines and empties the buffer; no other line
\* dispatches anything.
C15_EveryBlockNotifies ==
    [][ReadStep
          => LET line == Head(stdout)
             IN  /\ (in_notification' # in_notification) <=> (line = Dashes(50))
                 /\ (line = Dashes(50) /\ in_notification)
                       => /\ notified' = Append(notified, [title |-> "ActivityWatch",
                                                            body |-> join(BlockBody)])
                          /\ notification_content' = <<>>
                 /\ ~(line = Dashes(50) /\ in_notification) => notified' = notified]_vars

\* C15 amended: the same, but a closing delimiter dispatches its notification
\* only when the block has a non-blank line; a block without one dispatches
\* nothing.
C15_NonBlankBlockNotifies ==
    [][ReadStep
          => LET line == Head(stdout)
             IN  /\ (in_notification' # in_notification) <=> (line = Dashes(50))
                 /\ (line = Dashes(50) /\ in_notification)
                       => /\ notified' = IF BlockBody # <<>>
                                         THEN Append(notified, [title |-> "ActivityWatch",
                                                                body |-> join(BlockBody)])
                                         ELSE notified
                          /\ notification_content' = <<>>
                 /\ ~(line = Dashes(50) /\ in_notification) => notified' = notified]_vars

\* C15 witness: a block of two content lines was closed and dispatched as one
\* notification with the lines joined by a newline; the buffer is empty.
C15_Witness ==
    /\ Len(notified) = 1
    /\ notified[1] = [title |-> "ActivityWatch", body |-> <<"a", "\n", "b">>]
    /\ ~in_notification
    /\ notification_content = <<>>
    /\ stdout = <<>>

\* The quit handler runs
QuitStep == exited' /\ ~exited

\* A terminate signal reaches the child with this pid
ChildAlive(pid) == pid \in DOMAIN workers /\ workers[pid].pc = "alive"

\* C16: the quit handler runs with the lifecycle mutex free for it to take; for
\* every module in the pid map it sets pending_shutdown and signals the recorded
\* child when that child is alive, whether or not the signal to another module
\* fails; it touches no other module; and it exits without waiting: the worker
\* threads and the channel are as they were.
C16_QuitStopsAllThenExits ==
    [][QuitStep
          => /\ mutex = "free"
             /\ \A n \in DOMAIN modules_pid :
                   /\ Get(modules_pending_shutdown', n, FALSE)
                   /\ ChildAlive(modules_pid[n]) => modules_pid[n] \in signalled'
             /\ \A n \in Names \ DOMAIN modules_pid :
                   /\ (n \in DOMAIN modules_pending_shutdown') = (n \in DOMAIN modules_pending_shutdown)
                   /\ Get(modules_pending_shutdown', n, FALSE) = Get(modules_pending_shutdown, n, FALSE)
             /\ signalled' \subseteq signalled \cup { modules_pid[n] : n \in DOMAIN modules_pid }
             /\ workers' = workers
             /\ chan' = chan
             /\ UNCHANGED <<modules_running, modules_pid>>]_vars

\* C16 witness: quit found two modules in the pid map; the child of one had
\* already exited (its terminate failed), the other child was signalled and is
\* still alive when the application has exited.
C16_Witness ==
    /\ exited
    /\ last.op = "quit"
    /\ \A n \in Names : clicks[n] = <<>>
    /\ \E n, m \in DOMAIN modules_pid :
          /\ n # m
          /\ modules_pid[n] \notin DOMAIN workers
          /\ modules_pid[m] \in signalled
          /\ ChildAlive(modules_pid[m])
          /\ modules_pending_shutdown[n] /\ modules_pending_shutdown[m]

\* C17: when the port check finds the configured port in use, the error dialog
\* is requested and setup aborts: start_manager never runs, no worker thread
\* exists and no child is ever spawned.
C17_PortInUseAborts ==
    <<"port", "in_use">> \in dialogs
       => /\ startup = "aborted"
          /\ auto_i = 1
          /\ workers = EmptyMap
          /\ chan = <<>>
          /\ \A n \in Names : spawned[n] = 0

\* C17 witness: the port was in use, the dialog was requested and setup aborted
\* with an autostart list that names discovered modules.
C17_Witness ==
    /\ last.op = "port_in_use"
    /\ <<"port", "in_use">> \in dialogs
    /\ startup = "aborted"
    /\ AutostartNames \cap modules_discovered # {}

\* A get_config call returns (or panics) in this step
GetConfigStep == cfg_calls' = cfg_calls + 1

\* C18: the first read sets first-run to "the file did not exist" and writes
\* the defaults exactly in that case; the program writes the file at most once,
\* and every later get_config call returns the cached value and leaves the file
\* and both cells alone.
C18_ReadOnceWriteOnce ==
    [][GetConfigStep =>
          IF CONFIG.some
          THEN /\ cfg_ret' = CONFIG
               /\ CONFIG' = CONFIG
               /\ FIRST_RUN' = FIRST_RUN
               /\ cfg_file' = cfg_file
               /\ cfg_writes' = cfg_writes
               /\ ~cfg_panic'
          ELSE /\ FIRST_RUN' = Some(~exists(cfg_file))
               /\ cfg_writes' = (IF exists(cfg_file) THEN 0 ELSE 1)
               /\ ~exists(cfg_file) =>
                     /\ cfg_file' = write_formatted_config(DefaultUserConfig)
                     /\ cfg_ret' = Some(DefaultUserConfig)
               /\ cfg_ret' = CONFIG']_vars

\* A first run whose file was removed again afterwards: three calls, one write,
\* the third call answered from the cache while no file exists
C18_Witness ==
    /\ cfg_calls = MaxGetConfigCalls
    /\ first_file = Some(Absent)
    /\ FIRST_RUN = Some(TRUE)
    /\ cfg_writes = 1
    /\ cfg_file = Absent
    /\ cfg_ret = Some(DefaultUserConfig)

\* The first read finds a file that exists, can be read and does not parse
MalformedLoadStep ==
    /\ GetConfigStep
    /\ ~CONFIG.some
    /\ readable(cfg_file)
    /\ ~from_str(cfg_file).ok

NoAutostartTable(f) ==
    /\ {"port", "discovery_paths"} \subseteq DOMAIN f
    /\ "autostart" \notin DOMAIN f

\* C20: a first read of a file without an [autostart] table succeeds: no error
\* dialog, port and discovery_paths as in the file, autostart from the defaults.
C20_MissingAutostartFilled ==
    [][(GetConfigStep /\ ~CONFIG.some /\ NoAutostartTable(cfg_file)) =>
          /\ cfg_notes' = cfg_notes
          /\ cfg_ret'.some
          /\ cfg_ret'.v.port = cfg_file.port
          /\ cfg_ret'.v.discovery_paths = cfg_file.discovery_paths
          /\ cfg_ret'.v.autostart = DefaultUserConfig.autostart]_vars

\* The first read of a launch finds the file exactly as a first run wrote it
ReadsWrittenDefaults ==
    /\ GetConfigStep
    /\ ~CONFIG.some
    /\ cfg_file = write_formatted_config(DefaultUserConfig)

\* C21: parsing the text that write_formatted_config wrote for the default
\* configuration succeeds and yields the default configuration again, whatever
\* list of discovery paths the defaults hold.
C21_DefaultsRoundTrip ==
    [][ReadsWrittenDefaults =>
          /\ cfg_notes' = cfg_notes
          /\ cfg_ret' = Some(DefaultUserConfig)]_vars

\* A worker thread for a module other than aw-notify spawns its child in this
\* step: w is the thread, and lastArgv' holds the child's arguments
GenericSpawnStep(w) ==
    /\ w \in DOMAIN workers
    /\ workers[w].pc = "new"
    /\ workers[w].kind = "generic"
    /\ w \in DOMAIN workers'
    /\ workers'[w].pc = "alive"

\* C22: a generic child receives exactly the custom args when there are any,
\* otherwise "--port <port>" when the configured port is not 5600 and no
\* argument at all when it is 5600.
C22_GenericArgv ==
    [][\A w \in DOMAIN workers :
          GenericSpawnStep(w) =>
             lastArgv'[workers[w].name] =
                IF workers[w].custom.some THEN workers[w].custom.v
                ELSE IF config.port # 5600 THEN <<"--port", ToString(config.port)>>
                ELSE <<>>]_vars

\* A generic child started from the tray (no custom args) under port 5600: it
\* received no arguments
C22_Witness ==
    /\ last.op = "spawn"
    /\ last.name # "aw-notify"
    /\ config.port = 5600
    /\ lastArgv[last.name] = <<>>

\* The roots in the order of precedence the specification gives them
ClaimedRoots == world.discovery_paths \o world.PATH

\* The directories under root r: r itself and what its aw- subdirectories lead to
Under(r) ==
    LET a == world.fs[r].sub
        b == IF a = "-" THEN "-" ELSE world.fs[a].sub
    IN  {r, a, b} \ {"-"}

\* C23: when discover_modules returns, every recorded module's path lies under
\* the earliest root, in the order discovery_paths then PATH, that holds the
\* module.
C23_EarliestRootWins ==
    dpc = "done" =>
       \A n \in DOMAIN found_modules :
          LET I == {i \in DOMAIN ClaimedRoots :
                       \E d \in Under(ClaimedRoots[i]) : n \in world.fs[d].files}
          IN  /\ I # {}
              /\ Head(found_modules[n]) = ClaimedRoots[CHOOSE i \in I : \A j \in I : i <= j]

\* C24: discover_modules reads every directory at most once, however the aw-
\* subdirectories link to each other.
C24_EachDirExpandedOnce ==
    \A d \in DOMAIN reads : reads[d] <= 1

\* C25: whenever the lock file exists because of a second launch, the watcher
\* eventually deletes it (and shows the main window in the same step).
C25_LockFileEventuallyHandled ==
    lock_file ~> ~lock_file

\* C26: the watcher thread never ends, whatever events it receives.
C26_WatcherStaysAlive ==
    wpc # "panicked"

C28_BudgetStaysUsedUp ==
    [][\A n \in Names :
          Get(modules_restart_count, n, 0) = 3
             => /\ Get(modules_restart_count', n, 0) = 3
                /\ \A a \in ArbiterKinds :
                      (a.name = n /\ ArbiterStep(a))
                         => /\ \A w \in DOMAIN workers' : w \in DOMAIN workers
                            /\ spawned' = spawned]_vars

\* The limit dialog has been shown for a module, and a tray click has just
\* created a worker thread for it
C28_Witness ==
    /\ last.op = "click_start"
    /\ Get(modules_restart_count, last.name, 0) = 3
    /\ <<last.name, "limit">> \in dialogs
    /\ \E w \in DOMAIN workers : workers[w].name = last.name /\ workers[w].pc = "new"

\* C29: a crashed module is respawned only after the user has been asked about
\* it: an arbiter step that requests a spawn finds a dialog about its module
\* already requested (the weakest reading: the answer is not even looked at).
C29_RespawnOnlyAfterAsked ==
    [][\A a \in ArbiterKinds :
          (ArbiterStep(a) /\ workers' # workers)
             => \E k \in {"restarting", "limit"} : <<a.name, k>> \in dialogs]_vars

\* The call of getter fn that this step is returns normally
GetterReturns(fn) ==
    /\ path_calls' = path_calls + 1
    /\ path_last'.fn = fn
    /\ path_last'.res = "ok"

\* C30: when get_config_path or get_log_path returns, the parent directory of
\* the returned path exists; a later call of the same getter returns the same
\* path and leaves the file system as it was.
C30_ParentExistsIdempotent ==
    [][\A fn \in {"get_config_path", "get_log_path"} :
          GetterReturns(fn)
             => /\ parent(path_last'.path) \in fs_dirs'
                /\ path_first[fn].some
                      => /\ path_last'.path = path_first[fn].v.path
                         /\ fs_dirs' = fs_dirs
                         /\ fs_files' = fs_files]_vars

\* get_log_path returned a second time, and its first call had created the
\* log directory and an ancestor of it
C30_Witness ==
    /\ path_last.fn = "get_log_path"
    /\ path_last.res = "ok"
    /\ path_first["get_log_path"].some
    /\ path_first["get_log_path"].v.path = path_last.path
    /\ Cardinality(path_first["get_log_path"].v.created) >= 2
    /\ parent(path_last.path) \in path_first["get_log_path"].v.created
    /\ path_last.created = {}
    /\ parent(path_last.path) \in fs_dirs

\* The consumer takes a message of the given type for module n off the channel
Consumes(type, n) ==
    /\ chan # <<>>
    /\ chan' = Tail(chan)
    /\ Head(chan).type = type
    /\ Head(chan).name = n

\* C31: for each module the consumed messages alternate Started, Stopped,
\* Started, ...: a Started is consumed only when the module's last consumed
\* message was a Stopped or there was none (running not true), a Stopped only
\* when it was a Started (running true).
C31_ConsumedAlternate ==
    [][\A n \in Names :
          /\ Consumes("Started", n) => ~is_module_running(n)
          /\ Consumes("Stopped", n) => is_module_running(n)]_vars

\* C32: the argument list a child gets on an automatic restart equals the one
\* the module's most recent child got: the worker an arbiter step creates will
\* pass the argv recorded at the last spawn of that module.
C32_RestartRepeatsArgv ==
    [][\A a \in ArbiterKinds :
          (ArbiterStep(a) /\ workers' # workers)
             => ChildArgv(workers'[nextId].kind, workers'[nextId].custom)
                   = lastArgv[a.name]]_vars

\* The last step was an arbiter of n going through its restart branch, and the
\* newest worker thread is one of n that has not run command.spawn() yet
ArbiterSpawned(n) ==
    /\ last = [op |-> "arbiter_restart", name |-> n]
    /\ (nextId - 1) \in DOMAIN workers
    /\ workers[nextId - 1].name = n
    /\ workers[nextId - 1].pc = "new"

\* C33: under fair scheduling, a failing exit of a discovered module consumed
\* while pending_shutdown[name] is false and restart_count[name] < 3 is
\* eventually followed by a spawn of that module requested by an arbiter
\* (unless the application exits or the run's bound on spawns stops the arbiter).
C33_FailingExitRestarts ==
    \A n \in Names :
        (/\ last = [op |-> "stopped_fail", name |-> n]
         /\ n \in modules_discovered
         /\ ~Get(modules_pending_shutdown, n, FALSE)
         /\ Get(modules_restart_count, n, 0) < 3)
            ~> \/ ArbiterSpawned(n)
               \/ exited
               \/ nextId > MaxLiveWorkers /\ ArbiterWouldSpawn(n)

\* C33 (amended): an arbiter exists only for a consumed failing Stopped, under
\* fair scheduling every arbiter eventually wakes (unless the application exits
\* or the run's bound on spawns stops it), and it decides when it wakes: it
\* requests a spawn exactly if at that moment pending_shutdown[name] is not
\* true, restart_count[name] < 3, the module is not marked running and it is
\* discovered.
C33_ArbiterDecidesAtWake ==
    /\ [][\A a \in ArbiterKinds :
             /\ arbiters'[a] > arbiters[a]
                   => Consumes("Stopped", a.name) /\ ~Head(chan).ok
             /\ ArbiterStep(a)
                   => ((workers' # workers)
                          <=> /\ ~Get(modules_pending_shutdown, a.name, FALSE)
                              /\ Get(modules_restart_count, a.name, 0) < 3
                              /\ ~Get(modules_running, a.name, FALSE)
                              /\ a.name \in modules_discovered)]_vars
    /\ \A a \in ArbiterKinds :
          (arbiters[a] > 0)
             ~> \/ arbiters[a] = 0
                \/ exited
                \/ nextId > MaxLiveWorkers /\ ArbiterWouldSpawn(a.name)

\* An arbiter woke with the budget left and no shutdown pending, and requested
\* nothing: the user had started the module from the tray during its delay and
\* that child's Started had been consumed
C33_Witness ==
    /\ last.op = "arbiter_restart"
    /\ Get(modules_running, last.name, FALSE)
    /\ clicks[last.name] = <<"start">>
    /\ Get(modules_restart_count, last.name, 0) = 1
    /\ \A w \in DOMAIN workers : workers[w].pc = "alive"

\* The Init messages waiting in a channel
InitsIn(c) == Cardinality({i \in 1..Len(c) : c[i].type = "Init"})

\* C34: start_manager sends exactly one Init; a projection happens only once
\* the tray id is published; and under fair scheduling, once start_manager is
\* running, the full menu listing every discovered module is eventually
\* installed, whether or not a module starts.
C34_InitProjectsMenu ==
    /\ [][/\ (startup = "autostart" /\ startup' = "tray") => chan' = Append(chan, InitMsg)
          /\ InitsIn(chan') > InitsIn(chan)
                => (startup = "autostart" /\ startup' = "tray" /\ chan' = Append(chan, InitMsg))
          /\ tray_menu' # tray_menu => tray_ready]_vars
    /\ (startup = "autostart")
          ~> (tray_menu.full /\ modules_discovered \subseteq MenuIds(tray_menu))

\* The Init message has just been consumed, before any child was spawned, and
\* the menu lists the discovered modules
C34_Witness ==
    /\ last.op = "init_menu"
    /\ \A n \in Names : spawned[n] = 0
    /\ modules_running = EmptyMap
    /\ tray_menu.full
    /\ modules_discovered = MenuIds(tray_menu)
    /\ Cardinality(modules_discovered) = 2

\* C35: modules_menu_set is false before the first menu projection and true
\* once a projection has completed.
C35_MenuSetTracksProjection == modules_menu_set <=> tray_menu.full

\* Map f has the same entry for key k as map g (both absent, or the same value)
SameEntry(f, g, k) ==
    /\ (k \in DOMAIN f) <=> (k \in DOMAIN g)
    /\ k \in DOMAIN f => f[k] = g[k]

\* The step is one of the operations on module n: its Started or Stopped is
\* consumed, it is clicked in the tray, or one of its arbiters wakes
OperationOn(n) ==
    \/ Consumes("Started", n)
    \/ Consumes("Stopped", n)
    \/ clicks'[n] # clicks[n]
    \/ \E a \in ArbiterKinds : a.name = n /\ ArbiterStep(a)

\* C36: an operation on module A leaves the running, pid, args, restart_count
\* and pending_shutdown entries of every other module as they were, and
\* modules_discovered never changes.
C36_OtherModulesUntouched ==
    [][/\ modules_discovered' = modules_discovered
       /\ \A n \in Names, other \in Names :
              (OperationOn(n) /\ other # n)
                 => /\ SameEntry(modules_running', modules_running, other)
                    /\ SameEntry(modules_pid', modules_pid, other)
                    /\ SameEntry(modules_args', modules_args, other)
                    /\ SameEntry(modules_restart_count', modules_restart_count, other)
                    /\ SameEntry(modules_pending_shutdown', modules_pending_shutdown, other)]_vars

\* The Stopped message of one module has just been consumed while the other
\* module is running with a pid and stored args
C36_Witness ==
    /\ last.op \in {"stopped_ok", "stopped_fail"}
    /\ \E other \in Names \ {last.name} :
          /\ Get(modules_running, other, FALSE)
          /\ other \in DOMAIN modules_pid
          /\ other \in DOMAIN modules_args

\* The live children of module n
AliveChildren(n) == {w \in DOMAIN workers : workers[w].name = n /\ workers[w].pc = "alive"}

\* C37: at any time at most one child process is alive per module name.
C37_AtMostOneChild == \A n \in Names : Cardinality(AliveChildren(n)) <= 1

\* C38: when Quit is processed, every child that is alive at that moment has
\* been sent a terminate signal when the application exits.
C38_QuitSignalsEveryChild ==
    [][QuitStep => \A w \in DOMAIN workers : ChildAlive(w) => w \in signalled']_vars

\* The rank of a lock in the one order: M, then H, then A, then T
Rank(l) == IF l = "M" THEN 1 ELSE IF l = "H" THEN 2 ELSE IF l = "A" THEN 3 ELSE 4

\* A thread is in the middle of a script
Busy == \E t \in ThreadIds : Active(t)

\* C39: every thread takes the locks it holds together in the order M, H, A,
\* T; as long as some thread is in the middle of its work some thread can take
\* a step; and while a thread waits on a condition variable (the consumer for
\* the tray id, with the lifecycle mutex held) the startup thread can take its
\* next step.
C39_OneOrderNoDeadlock ==
    /\ \A t \in DOMAIN sync.threads :
          LET held == sync.threads[t].held
          IN  \A i, j \in 1..Len(held) : i < j => Rank(held[i]) < Rank(held[j])
    /\ Busy => ENABLED NextSync
    /\ (Active("startup") /\ \E t \in DOMAIN sync.threads : sync.threads[t].waiting)
          => ENABLED ThreadStep("startup")

\* The consumer waits for the tray id holding M, H and A while the startup
\* thread has not published it and the notification thread wants A
C39_Witness ==
    /\ "consumer" \in DOMAIN sync.threads
    /\ sync.threads["consumer"].waiting
    /\ sync.threads["consumer"].held = <<"M", "H", "A">>
    /\ ~sync.flag["T"]
    /\ Active("startup")
    /\ Active("notify")
    /\ sync.threads["notify"].held = <<>>

\* The reader thread sends its Stopped message
ReaderSends == chan' # chan

\* A block line that holds nothing but blanks
OnlyBlanks(l) == \A i \in 1..Len(l) : l[i] \in {" ", "\t"}

\* What C40 says of the reader's parsing: a closing delimiter whose block has
\* only blank lines dispatches nothing, no step other than a closing delimiter
\* dispatches (so a block open at end-of-file is dropped), and the buffer is
\* empty whenever the in-notification flag is false.
ReaderDropsAndKeepsEmpty ==
    /\ [](~in_notification => notification_content = <<>>)
    /\ [][/\ (ReadStep /\ in_notification /\ Head(stdout) = Dashes(50)
                 /\ \A i \in 1..Len(block) : OnlyBlanks(block[i]))
              => notified' = notified
          /\ ~(ReadStep /\ in_notification /\ Head(stdout) = Dashes(50))
              => notified' = notified]_vars

\* C40 as stated: the parsing part, and the Stopped message is sent only when
\* stdout has reached end-of-file (every line has been read).
C40_StoppedOnlyAfterEof ==
    /\ ReaderDropsAndKeepsEmpty
    /\ [][ReaderSends => stdout = <<>>]_vars

\* C40 amended: the parsing part, and the Stopped message is sent only when the
\* read loop has ended, at end-of-file or at a failed read that leaves the rest
\* of stdout unread, and carries the exit status of the child waited for.
C40_StoppedAfterLoopEnds ==
    /\ ReaderDropsAndKeepsEmpty
    /\ [][ReaderSends
             => /\ (rpc = "eof" /\ stdout = <<>>) \/ rpc = "broken"
                /\ \E ok \in BOOLEAN : chan' = Append(chan, StoppedMsg("aw-notify", ok))
                /\ notified' = notified]_vars

\* C40 witness: a read failed inside an open block that had buffered a line;
\* the Stopped message was sent with lines of stdout unread, and nothing was
\* dispatched.
C40_Witness ==
    /\ rpc = "done"
    /\ stdout # <<>>
    /\ in_notification
    /\ notification_content = <<"a">>
    /\ notified = <<>>
    /\ Len(chan) = 1
    /\ Head(chan).type = "Stopped"
====
